---- MODULE Spec2Model ----
(***************************************************************************)
(* Model of the ingestion pipeline of src/src/ingestion/processor.py:      *)
(* parsing, chunking, chunk keys, the embedding cache, batch embedding     *)
(* with retry, the index upsert with retry and the ingestion manifest.     *)
(*                                                                         *)
(* Texts are sequences of one-character strings.  Python's 0-based,        *)
(* half-open slices are kept as such in Slice.                             *)
(***************************************************************************)
EXTENDS Integers, Sequences, FiniteSets, TLC

\* ------------------------------------------------------------------------
\* Program constants (processor.py, lines 27-43)
\* ------------------------------------------------------------------------
CHUNK_SIZE_TOKENS == 200
CHUNK_OVERLAP_TOKENS == 30
CHUNK_SIZE_CHARS == 2800
CHUNK_OVERLAP_CHARS == 480
\* chunk[:64] in _get_chunk_hash
HASH_PREFIX_CHARS == 64
\* COMPLIANCE_BATCH: the configured batch size of the deployment modelled here
BATCH_SIZE == 2
\* max_tries of the two backoff decorators
EMBED_MAX_TRIES == 3
UPSERT_MAX_TRIES == 2

\* ------------------------------------------------------------------------
\* Bounds of the model
\* ------------------------------------------------------------------------
\* number of ingest_document calls in one behaviour
MaxRuns == 2
\* number of collaborator calls (a model load, the embedding of one batch, the
\* upsert) that fail at least once in one behaviour; the retries of a call
\* that has failed may fail as well
MaxFaultyCalls == 2

\* ------------------------------------------------------------------------
\* Sequence helpers
\* ------------------------------------------------------------------------
Min(a, b) == IF a < b THEN a ELSE b

\* Python s[i:j] for 0 <= i, 0 <= j
Slice(s, i, j) == SubSeq(s, i + 1, Min(j, Len(s)))

\* the string of a sequence of one-character strings
RECURSIVE Str(_)
Str(s) ==
    IF Len(s) = 0 THEN ""
    ELSE IF Len(s) = 1 THEN s[1]
    ELSE LET h == Len(s) \div 2
         IN  Str(SubSeq(s, 1, h)) \o Str(SubSeq(s, h + 1, Len(s)))


\* ------------------------------------------------------------------------
\* Characters
\* ------------------------------------------------------------------------
Whitespace == {" ", "\n"}

\* variant: only the empty text counts as blank (no strip)
IsBlank_no_strip(text) == Len(text) = 0

\* str.strip() leaves nothing: the text is empty or whitespace only
IsBlank(text) == \A i \in 1..Len(text) : text[i] \in Whitespace

\* ------------------------------------------------------------------------
\* The tokenizer collaborator (AutoTokenizer of an uncased model): one token
\* per whitespace-separated word, lower-cased; decoding joins the tokens
\* with single spaces.  Both normalisations make the decoded text differ
\* from the source text, which is what the offset fallback is for.
\* ------------------------------------------------------------------------
Lower(c) == IF c = "A" THEN "a" ELSE IF c = "B" THEN "b" ELSE c

\* stands for U+200B ZERO WIDTH SPACE, a format character: str.strip() keeps
\* it, the tokenizer's text cleaning drops it
ZWSP == "|"

\* tokenizer.encode(text, add_special_tokens=False), by halving: a word cut
\* by the split is put together again
JoinWords(l, r, cut) ==
    IF cut
    THEN SubSeq(l, 1, Len(l) - 1) \o <<l[Len(l)] \o r[1]>> \o Tail(r)
    ELSE l \o r

RECURSIVE Words(_)
Words(text) ==
    IF Len(text) = 0 THEN <<>>
    ELSE IF Len(text) = 1
    THEN IF text[1] \in Whitespace THEN <<>> ELSE <<(<<Lower(text[1])>>)>>
    ELSE LET h == Len(text) \div 2
         IN  JoinWords(Words(SubSeq(text, 1, h)),
                       Words(SubSeq(text, h + 1, Len(text))),
                       text[h] \notin Whitespace /\ text[h + 1] \notin Whitespace)

Encode(text) == Words(SelectSeq(text, LAMBDA c : c # ZWSP))

\* tokenizer.decode(tokens, skip_special_tokens=True)
RECURSIVE Decode(_)
Decode(tokens) ==
    IF Len(tokens) = 0 THEN <<>>
    ELSE IF Len(tokens) = 1 THEN tokens[1]
    ELSE LET h == Len(tokens) \div 2
         IN  Decode(SubSeq(tokens, 1, h)) \o <<" ">>
                 \o Decode(SubSeq(tokens, h + 1, Len(tokens)))

\* str.find(sub): the lowest 0-based index where sub occurs, -1 when none
Find(text, sub) ==
    LET m    == Len(sub)
        hits == {s \in 0..(Len(text) - m) : SubSeq(text, s + 1, s + m) = sub}
    IN  IF hits = {} THEN -1 ELSE CHOOSE s \in hits : \A t \in hits : s <= t

\* len(range(0, n, step))
RangeLen(n, step) == (n + step - 1) \div step

\* ------------------------------------------------------------------------
\* _chunk_text: a sequence of [text, start, end]; the chunk text is kept as
\* a string
\* ------------------------------------------------------------------------
\* variant: the windows do not overlap
CharChunks_no_overlap(text) ==
    LET step == CHUNK_SIZE_CHARS
    IN  [k \in 1..RangeLen(Len(text), step) |->
            LET i     == (k - 1) * step
                chunk == Slice(text, i, i + CHUNK_SIZE_CHARS)
            IN  [text |-> Str(chunk), first |-> Str(Slice(chunk, 0, HASH_PREFIX_CHARS)),
                 start |-> i, end |-> i + Len(chunk)]]

CharChunks(text) ==
    LET step == CHUNK_SIZE_CHARS - CHUNK_OVERLAP_CHARS
    IN  [k \in 1..RangeLen(Len(text), step) |->
            LET i     == (k - 1) * step
                chunk == Slice(text, i, i + CHUNK_SIZE_CHARS)
            IN  [text |-> Str(chunk), first |-> Str(Slice(chunk, 0, HASH_PREFIX_CHARS)),
                 start |-> i, end |-> i + Len(chunk)]]

TokenChunks(text) ==
    LET tokens == Encode(text)
        step   == CHUNK_SIZE_TOKENS - CHUNK_OVERLAP_TOKENS
    IN  [k \in 1..RangeLen(Len(tokens), step) |->
            LET i          == (k - 1) * step
                chunk_text == Decode(Slice(tokens, i, i + CHUNK_SIZE_TOKENS))
                found      == Find(text, chunk_text)
                start      == IF found = -1
                              THEN (i * Len(text)) \div Len(tokens)
                              ELSE found
            IN  [text |-> Str(chunk_text),
                 first |-> Str(Slice(chunk_text, 0, HASH_PREFIX_CHARS)),
                 start |-> start, end |-> start + Len(chunk_text)]]

\* ------------------------------------------------------------------------
\* The documents offered for ingestion.  A file is named by its path; a
\* path that is no key of FileSystem does not exist.  A .pdf is its pages'
\* extracted texts, a .txt its text.
\* ------------------------------------------------------------------------
PeriodicText == [i \in 1..799 |-> IF i % 2 = 1 THEN "a" ELSE " "]
MixedText ==
    [i \in 1..799 |-> IF i % 2 = 0 THEN " "
                      ELSE IF i < 300 THEN "a" ELSE IF i < 600 THEN "b" ELSE "A"]

\* report.txt after an edit of its 100th word
RevisedText == [MixedText EXCEPT ![199] = "b"]

FileSystem ==
    [path \in {"empty.txt", "blank.pdf", "notes.md", "short.txt", "table.txt",
               "report.txt", "revised.txt", "marks.txt"} |->
        CASE path = "empty.txt"  -> <<>>
          [] path = "blank.pdf"  -> << <<>>, <<" ">> >>
          [] path = "notes.md"   -> <<"a">>
          [] path = "short.txt"  -> <<"a", "b", " ", "a">>
          [] path = "table.txt"  -> PeriodicText
          [] path = "report.txt" -> MixedText
          [] path = "revised.txt" -> RevisedText
          [] path = "marks.txt"  -> <<ZWSP>>]

Paths == DOMAIN FileSystem \cup {"gone.txt"}

\* Path(file_path).suffix
Suffix(path) ==
    CASE path \in {"empty.txt", "short.txt", "table.txt", "report.txt", "gone.txt",
                   "revised.txt", "marks.txt"}
             -> ".txt"
      [] path = "blank.pdf" -> ".pdf"
      [] path = "notes.md"  -> ".md"

\* "\n".join(pages)
RECURSIVE JoinLines(_)
JoinLines(parts) ==
    IF Len(parts) = 0 THEN <<>>
    ELSE IF Len(parts) = 1 THEN parts[1]
    ELSE parts[1] \o <<"\n">> \o JoinLines(Tail(parts))

\* _parse_document: [ok |-> TRUE, text] or [ok |-> FALSE, error], the error
\* being the text of the exception raised
_parse_document(file_path) ==
    IF file_path \notin DOMAIN FileSystem
    THEN [ok |-> FALSE, error |-> "File not found: " \o file_path]
    ELSE IF Suffix(file_path) = ".pdf"
    THEN [ok |-> TRUE, text |-> JoinLines(FileSystem[file_path])]
    ELSE IF Suffix(file_path) = ".txt"
    THEN [ok |-> TRUE, text |-> FileSystem[file_path]]
    ELSE [ok |-> FALSE, error |-> "Unsupported file type: " \o Suffix(file_path)]

\* _chunk_text after its call of the loader: token windows when
\* token_based_chunking holds and a tokenizer is present, else character
\* windows
_chunk_text(text, token_based) ==
    IF token_based THEN TokenChunks(text) ELSE CharChunks(text)

\* _parse_document, text.strip() and _chunk_text tabulated for the paths, so
\* that each is computed once
ParseTable == [p \in Paths |-> _parse_document(p)]

ChunkTable ==
    [p \in {q \in Paths : ParseTable[q].ok} |->
        [blank |-> IsBlank(ParseTable[p].text),
         token |-> _chunk_text(ParseTable[p].text, TRUE),
         char  |-> _chunk_text(ParseTable[p].text, FALSE)]]

\* ------------------------------------------------------------------------
\* Chunk identity, embedding collaborator
\* ------------------------------------------------------------------------
\* hashlib.sha256(...).hexdigest(), taken to be collision-free
Sha256(input) == <<"sha256", input>>

\* variant: the model name is left out of the hashed string
_get_chunk_hash_no_model(doc_id, chunk, embed_model_name) ==
    Sha256(doc_id \o ":" \o ToString(chunk.start) \o ":" \o ToString(chunk.end)
              \o ":" \o chunk.first)

\* variant: the whole chunk text is hashed
_get_chunk_hash_whole_text(doc_id, chunk, embed_model_name) ==
    Sha256(doc_id \o ":" \o ToString(chunk.start) \o ":" \o ToString(chunk.end)
              \o ":" \o chunk.text \o ":" \o embed_model_name)

\* variant: the offsets are left out of the hashed string
_get_chunk_hash_no_offsets(doc_id, chunk, embed_model_name) ==
    Sha256(doc_id \o ":" \o chunk.first \o ":" \o embed_model_name)

\* chunk.first is chunk[:64], cut when the chunk was made
_get_chunk_hash(doc_id, chunk, embed_model_name) ==
    Sha256(doc_id \o ":" \o ToString(chunk.start) \o ":" \o ToString(chunk.end)
              \o ":" \o chunk.first \o ":" \o embed_model_name)

\* SentenceTransformer.encode: the vector of a text under a model
Encoding(model, text) == <<"vec", model, text>>

\* ------------------------------------------------------------------------
\* State
\* ------------------------------------------------------------------------
\* the calls offered: document "A" in two versions, as a scanned .pdf without
\* text and under a path that is gone; "B" short, empty and as a .md file
Uploads ==
    {<<"A", "table.txt">>, <<"A", "report.txt">>, <<"A", "blank.pdf">>,
     <<"A", "gone.txt">>, <<"B", "short.txt">>, <<"B", "empty.txt">>,
     <<"B", "notes.md">>}
Models == {"all-MiniLM-L6-v2", "mpnet"}
Slots == {1, 2}
None == "None"
NoMap == [x \in {} |-> None]

VARIABLES
    manifestFile,   \* the JSON document at INGESTION_MANIFEST_PATH: doc_id -> entry
    cacheDir,       \* EMBED_CACHE_DIR: chunk hash -> vector (<hash>.npy)
    collection,     \* the vector index: id -> [embedding, metadata, document]
    EMBED_MODEL,    \* the environment variable
    loader,         \* the model/tokenizer singletons of the process
    run,            \* per call slot: the locals of ingest_document
    history,        \* the calls that have returned, in order of return
    started,        \* number of calls made so far
    savers,         \* the run ids of the manifest writes, in the order written
    faulty,         \* number of collaborator calls that have failed so far
    retriever,      \* retriever.py module state: which of its two models loaded
    query,          \* the locals of the query_collection call under way
    chunker,        \* a direct call of _chunk_text: its argument and its value
    generation,     \* the locals of the generate_answer call under way
    request,        \* the locals of the /query/ request under way
    loading,        \* a direct call of _get_embedding_model_and_tokenizer
    upload,         \* the locals of the /ingest/ request under way
    metrics         \* the Prometheus gauge and counter of the service

vars == <<manifestFile, cacheDir, collection, EMBED_MODEL, loader, run, history, started,
          savers, faulty, retriever, query, chunker, generation, request, loading,
          upload, metrics>>

\* no direct call of the loader has been made
IdleLoading == [pc |-> "idle", model |-> None, tokenizer |-> None, n_calls |-> 0]

\* no /ingest/ request is under way
IdleUpload ==
    [pc |-> "idle", filename |-> None, doc_id |-> "unknown", temp_path |-> None,
     temp_exists |-> FALSE, status_code |-> 0, raised |-> NoMap, content |-> NoMap,
     response |-> NoMap, closed |-> FALSE,
     \* what the service has seen (observation only)
     n_requests |-> 0, n_empty |-> 0, n_ingest |-> 0, started_before |-> 0]

\* no request has been counted
NoMetrics == [in_progress |-> 0, request_count |-> [c \in {200, 400, 500} |-> 0]]

\* no direct call of _chunk_text has been made
IdleChunker == [pc |-> "idle", text |-> <<>>, token_based |-> FALSE, chunks |-> <<>>]

\* no generate_answer call is under way
IdleGeneration ==
    [pc |-> "idle", query |-> None, retrieved_chunks |-> <<>>, prompt |-> None,
     answer |-> None, status |-> None, n_post |-> 0]

\* no /query/ request is under way
IdleRequest ==
    [pc |-> "idle", query_text |-> None, top_k |-> 0, rerank_k |-> 0,
     retrieved_chunks |-> <<>>, status_code |-> 0, body |-> NoMap,
     \* what the request has seen (observation only)
     generation_status |-> None, n_post |-> 0]

\* no query_collection call is under way
IdleQuery ==
    [pc |-> "idle", query_text |-> None, top_k |-> 0, rerank_k |-> 0,
     initial_retrieval_k |-> 0, initial_chunks |-> <<>>, re_rank_scores |-> <<>>,
     retrieved_chunks |-> <<>>, error |-> None,
     \* what the call has done so far (observation only)
     n_query |-> 0, n_results |-> 0, n_predict |-> 0]

IdleRun ==
    [pc |-> "idle", run_id |-> 0, doc_id |-> None, file_path |-> None,
     manifest |-> NoMap, embed_model |-> None,
     all_chunk_hashes |-> <<>>, all_chunk_embeddings |-> <<>>,
     all_chunk_metadatas |-> <<>>, all_chunk_texts |-> <<>>,
     chunks_to_embed_texts |-> <<>>, chunks_to_embed_metadata |-> <<>>,
     generated_embeddings |-> <<>>, newly_embedded_count |-> 0,
     batch_start |-> 0, embed_tries |-> 0, upsert_tries |-> 0,
     failed_upsert_hashes |-> {}, result |-> NoMap,
     \* what the call has seen and done so far (observation only)
     token_based |-> FALSE, last_error |-> None, savers_at_load |-> <<>>,
     manifest_before |-> NoMap, index_before |-> {}, cache_before |-> {},
     n_chunker |-> 0, n_cache_get |-> 0, n_cache_put |-> 0, n_embed |-> 0,
     n_upsert |-> 0, n_manifest_write |-> 0, faults |-> 0]

Init ==
    /\ manifestFile = NoMap
    /\ cacheDir = NoMap
    /\ collection = NoMap
    /\ EMBED_MODEL = "all-MiniLM-L6-v2"
    /\ loader = [name |-> None, model |-> None, tokenizer |-> None, token_based |-> FALSE]
    /\ run = [s \in Slots |-> IdleRun]
    /\ history = <<>>
    /\ started = 0
    /\ savers = <<>>
    /\ faulty = 0
    /\ retriever = [embedding_model |-> TRUE, reranker_model |-> TRUE]
    /\ query = IdleQuery
    /\ chunker = IdleChunker
    /\ generation = IdleGeneration
    /\ request = IdleRequest
    /\ loading = IdleLoading
    /\ upload = IdleUpload
    /\ metrics = NoMetrics

\* a collaborator call may fail while the behaviour has faulty calls left,
\* and a call that has failed may fail again on its retries
MayFail(tries) == tries > 0 \/ faulty < MaxFaultyCalls
Charge(tries) == IF tries > 0 THEN faulty ELSE faulty + 1

\* variant: one attempt more is made before giving up
GivesUp_one_late(tries, max_tries) == tries > max_tries

\* backoff.on_exception(..., max_tries=n): the exception of the n-th failed
\* attempt is raised to the caller
GivesUp(tries, max_tries) == tries >= max_tries

\* ------------------------------------------------------------------------
\* _get_embedding_model_and_tokenizer: the singletons after a call.  A load
\* is attempted when no model is held or the configured name has changed;
\* load_ok says whether SentenceTransformer and AutoTokenizer both load
\* (else ImportError/OSError is caught and the singletons are unset).
\* ------------------------------------------------------------------------
_get_embedding_model_and_tokenizer(ld, env, load_ok) ==
    IF ld.model = None \/ ld.name # env
    THEN IF load_ok
         THEN [name |-> env, model |-> env, tokenizer |-> env, token_based |-> TRUE]
         ELSE [name |-> None, model |-> None, tokenizer |-> None, token_based |-> FALSE]
    ELSE ld

\* what a constructor call of the loader (SentenceTransformer, then
\* AutoTokenizer.from_pretrained) may do: return, raise ImportError or
\* OSError, raise any other exception
LoadSteps == {"ok", "caught", "raises"}

\* variant: every exception of the try block is caught
LoaderTry_catch_all(ld, env, model_step, tokenizer_step) ==
    [state  |-> _get_embedding_model_and_tokenizer(
                    ld, env, model_step = "ok" /\ tokenizer_step = "ok"),
     raised |-> FALSE]

\* the loader statement by statement: the singletons after the call and
\* whether the call raised.  The model instance and the name are assigned
\* before the tokenizer is made; the except clause names ImportError and
\* OSError only, any other exception leaves the function with the
\* assignments made so far.
LoaderTry(ld, env, model_step, tokenizer_step) ==
    LET unset == [name |-> None, model |-> None, tokenizer |-> None,
                  token_based |-> FALSE]
        with_model == [ld EXCEPT !.model = env, !.name = env]
    IN  IF ld.model = None \/ ld.name # env
        THEN CASE model_step = "caught" -> [state |-> unset, raised |-> FALSE]
               [] model_step = "raises" -> [state |-> ld, raised |-> TRUE]
               [] model_step = "ok" /\ tokenizer_step = "caught"
                      -> [state |-> unset, raised |-> FALSE]
               [] model_step = "ok" /\ tokenizer_step = "raises"
                      -> [state |-> with_model, raised |-> TRUE]
               [] model_step = "ok" /\ tokenizer_step = "ok"
                      -> [state |-> [with_model EXCEPT !.tokenizer = env,
                                                       !.token_based = TRUE],
                          raised |-> FALSE]
        ELSE [state |-> ld, raised |-> FALSE]

\* variants of _update_manifest: the write is dropped; the written entries
\* are merged into the document on disk
_update_manifest_dropped(manifest_data) == manifestFile
_update_manifest_merged(manifest_data) == manifest_data @@ manifestFile

\* _update_manifest: the whole document is overwritten
_update_manifest(manifest_data) == manifest_data

\* variants of the except branch: the status is left as it was; the message
\* is not kept; the status is the degraded one
ExceptBranch_status_kept(r, message) ==
    LET manifest == [r.manifest EXCEPT ![r.doc_id] =
                        [@ EXCEPT !.error_message = {message}]]
    IN  [r EXCEPT !.manifest = manifest,
                  !.n_manifest_write = @ + 1,
                  !.result = [status |-> "failed", reason |-> message],
                  !.pc = "done"]
ExceptBranch_no_message(r, message) ==
    LET manifest == [r.manifest EXCEPT ![r.doc_id] =
                        [@ EXCEPT !.status = "failed"]]
    IN  [r EXCEPT !.manifest = manifest,
                  !.n_manifest_write = @ + 1,
                  !.result = [status |-> "failed", reason |-> message],
                  !.pc = "done"]
ExceptBranch_degraded(r, message) ==
    LET manifest == [r.manifest EXCEPT ![r.doc_id] =
                        [@ EXCEPT !.status = "completed_with_errors",
                                  !.error_message = {message}]]
    IN  [r EXCEPT !.manifest = manifest,
                  !.n_manifest_write = @ + 1,
                  !.result = [status |-> "failed", reason |-> message],
                  !.pc = "done"]

\* variant: the entry of the document is made afresh
ExceptBranch_entry_reset(r, message) ==
    LET manifest == [r.manifest EXCEPT ![r.doc_id] =
                        [status |-> "failed", chunks |-> NoMap,
                         error_message |-> {message}]]
    IN  [r EXCEPT !.manifest = manifest,
                  !.n_manifest_write = @ + 1,
                  !.result = [status |-> "failed", reason |-> message],
                  !.pc = "done"]

\* the except branch of ingest_document: status failed, the message kept,
\* the manifest written, the short dictionary returned
ExceptBranch(r, message) ==
    LET manifest == [r.manifest EXCEPT ![r.doc_id] =
                        [@ EXCEPT !.status = "failed", !.error_message = {message}]]
    IN  [r EXCEPT !.manifest = manifest,
                  !.n_manifest_write = @ + 1,
                  !.result = [status |-> "failed", reason |-> message],
                  !.pc = "done"]

\* the manifest file and the order of its writers after a call's write
Written(s, manifest) ==
    /\ manifestFile' = _update_manifest(manifest)
    /\ savers' = Append(savers, run[s].run_id)
NotWritten == UNCHANGED <<manifestFile, savers>>

\* variant: every call starts from an empty manifest
LoadManifest_empty(file) == NoMap

\* the manifest a call starts from: the JSON document on disk, or {} when
\* there is none
LoadManifest(file) == file

\* ------------------------------------------------------------------------
\* ingest_document, step by step
\* ------------------------------------------------------------------------
\* the call is made: the collection is obtained, the manifest loaded and an
\* entry made for a doc_id it does not have
Call(s, doc_id, file_path) ==
        /\ run[s].pc = "idle"
        /\ started < MaxRuns
        /\ started' = started + 1
        /\ LET loaded   == LoadManifest(manifestFile)
               manifest == IF doc_id \in DOMAIN loaded
                           THEN loaded
                           ELSE (doc_id :> [status |-> "processing", chunks |-> NoMap,
                                            error_message |-> {}]) @@ loaded
           IN  run' = [run EXCEPT ![s] =
                         [IdleRun EXCEPT !.pc = "parse", !.run_id = started + 1,
                                         !.doc_id = doc_id, !.file_path = file_path,
                                         !.manifest = manifest,
                                         !.savers_at_load = savers,
                                         !.manifest_before = manifestFile,
                                         !.index_before = DOMAIN collection,
                                         !.cache_before = DOMAIN cacheDir]]
        /\ UNCHANGED <<loading, upload, metrics, retriever, query, chunker, generation,
                       request, manifestFile, cacheDir, collection, EMBED_MODEL,
                       loader, history, savers, faulty>>

Start(s) == \E u \in Uploads : Call(s, u[1], u[2])

\* 1. parse; a blank text ends the call
Parse(s) ==
    LET r      == run[s]
        parsed == ParseTable[r.file_path]
    IN  /\ r.pc = "parse"
        /\ IF ~parsed.ok
           THEN LET e == ExceptBranch([r EXCEPT !.last_error = parsed.error],
                                      parsed.error)
                IN  /\ run' = [run EXCEPT ![s] = e]
                    /\ Written(s, e.manifest)
           ELSE IF ChunkTable[r.file_path].blank
           THEN LET manifest == [r.manifest EXCEPT ![r.doc_id].status = "failed_empty"]
                IN  /\ run' = [run EXCEPT ![s] =
                                  [r EXCEPT !.manifest = manifest,
                                            !.n_manifest_write = @ + 1,
                                            !.result = [status |-> "failed",
                                                        reason |-> "empty document"],
                                            !.pc = "done"]]
                    /\ Written(s, manifest)
           ELSE /\ run' = [run EXCEPT ![s] = [r EXCEPT !.pc = "chunk"]]
                /\ NotWritten
        /\ UNCHANGED <<loading, upload, metrics, retriever, query, chunker, generation,
                       request, cacheDir, collection, EMBED_MODEL, loader, history,
                       started, faulty>>

\* whether a call of the loader attempts a load
LoadAttempted == loader.model = None \/ loader.name # EMBED_MODEL

\* the positions of seq that satisfy Test, in order
Positions(n, Test(_)) ==
    LET RECURSIVE upto(_)
        upto(k) == IF k = 0 THEN <<>>
                   ELSE IF Test(k) THEN Append(upto(k - 1), k) ELSE upto(k - 1)
    IN  upto(n)

\* 2.-4. chunk (the chunker calls the loader first), then for every chunk its
\* hash, its metadata and the cache lookup
Chunk(s) ==
    \E load_ok \in BOOLEAN :
        LET r      == run[s]
            ld     == _get_embedding_model_and_tokenizer(loader, EMBED_MODEL, load_ok)
            chunks == IF ld.token_based /\ ld.tokenizer # None
                      THEN ChunkTable[r.file_path].token
                      ELSE ChunkTable[r.file_path].char
            n      == Len(chunks)
            model  == EMBED_MODEL
            hashes == [k \in 1..n |-> _get_chunk_hash(r.doc_id, chunks[k], model)]
            metas  == [k \in 1..n |->
                          [doc_id |-> r.doc_id, file_path |-> r.file_path,
                           start_char |-> chunks[k].start, end_char |-> chunks[k].end,
                           chunk_hash |-> hashes[k], embed_model |-> model]]
            hit(k)  == hashes[k] \in DOMAIN cacheDir
            miss(k) == ~hit(k)
            hits    == Positions(n, hit)
            misses  == Positions(n, miss)
        IN  /\ r.pc = "chunk"
            /\ LoadAttempted \/ load_ok
            /\ load_ok \/ faulty < MaxFaultyCalls
            /\ faulty' = IF load_ok THEN faulty ELSE faulty + 1
            /\ loader' = ld
            /\ run' = [run EXCEPT ![s] =
                  [r EXCEPT
                     !.embed_model = model,
                     !.token_based = ld.token_based /\ ld.tokenizer # None,
                     !.all_chunk_texts = [k \in 1..n |-> chunks[k].text],
                     !.all_chunk_hashes = hashes,
                     !.all_chunk_metadatas = metas,
                     !.all_chunk_embeddings =
                         [j \in 1..Len(hits) |-> cacheDir[hashes[hits[j]]]],
                     !.chunks_to_embed_texts =
                         [j \in 1..Len(misses) |-> chunks[misses[j]].text],
                     !.chunks_to_embed_metadata =
                         [j \in 1..Len(misses) |-> metas[misses[j]]],
                     !.newly_embedded_count = Len(misses),
                     !.n_chunker = @ + 1,
                     !.n_cache_get = @ + n,
                     !.faults = @ + (IF load_ok THEN 0 ELSE 1),
                     !.pc = IF Len(misses) > 0 THEN "embed" ELSE "upsert"]]
            /\ UNCHANGED <<loading, upload, metrics, retriever, query, chunker,
                           generation, request, manifestFile, cacheDir, collection,
                           EMBED_MODEL, history, started, savers>>

\* variant: the batch is one text short
Batch_one_short(texts, i) == Slice(texts, i, i + BATCH_SIZE - 1)

\* chunks_to_embed_texts[i:i + BATCH_SIZE]
Batch(texts, i) == Slice(texts, i, i + BATCH_SIZE)

\* 5. one attempt of _embed_batch on the batch at batch_start: the loader is
\* called, then the model encodes the batch or raises.  The third failure
\* of a batch reaches the except branch.
EmbedAttempt(s) ==
    \E load_ok \in BOOLEAN, encode_ok \in BOOLEAN :
        LET r     == run[s]
            ld    == _get_embedding_model_and_tokenizer(loader, EMBED_MODEL, load_ok)
            batch_texts == Batch(r.chunks_to_embed_texts, r.batch_start)
            ok    == ld.model # None /\ encode_ok
            error == IF ld.model = None THEN "Embedding model could not be loaded."
                     ELSE "encode failed"
            batch_embeddings ==
                [j \in 1..Len(batch_texts) |-> Encoding(ld.model, batch_texts[j])]
            next  == r.batch_start + BATCH_SIZE
        IN  /\ r.pc = "embed"
            /\ LoadAttempted \/ load_ok
            /\ ld.model # None \/ encode_ok
            /\ ok \/ MayFail(r.embed_tries)
            /\ faulty' = IF ok THEN faulty ELSE Charge(r.embed_tries)
            /\ loader' = ld
            /\ IF ok
               THEN /\ run' = [run EXCEPT ![s] =
                          [r EXCEPT
                             !.generated_embeddings = @ \o batch_embeddings,
                             !.n_embed = @ + 1,
                             !.batch_start = next,
                             !.embed_tries = 0,
                             !.pc = IF next < Len(r.chunks_to_embed_texts)
                                    THEN "embed" ELSE "cache"]]
                    /\ NotWritten
               ELSE LET failed == [r EXCEPT !.embed_tries = @ + 1, !.faults = @ + 1,
                                            !.last_error = error,
                                            !.n_embed = @ + (IF ld.model # None
                                                             THEN 1 ELSE 0)]
                    IN  IF ~GivesUp(failed.embed_tries, EMBED_MAX_TRIES)
                        THEN /\ run' = [run EXCEPT ![s] = failed]
                             /\ NotWritten
                        ELSE LET e == ExceptBranch(failed, error)
                             IN  /\ run' = [run EXCEPT ![s] = e]
                                 /\ Written(s, e.manifest)
            /\ UNCHANGED <<loading, upload, metrics, retriever, query, chunker,
                           generation, request, cacheDir, collection, EMBED_MODEL,
                           history, started>>

\* the last position of seq whose value is v (a later dict entry or record
\* of the same key replaces an earlier one)
LastAt(seq, v) == CHOOSE i \in 1..Len(seq) :
                      /\ seq[i] = v
                      /\ \A j \in (i + 1)..Len(seq) : seq[j] # v

Range(seq) == {seq[i] : i \in 1..Len(seq)}

\* variant of the re-assembly: the cached vectors first, then the new ones
Reassemble_appended(hashes, embedding_map, temp_embeddings) ==
    temp_embeddings \o
        LET new == Positions(Len(hashes), LAMBDA k : hashes[k] \in DOMAIN embedding_map)
        IN  [j \in 1..Len(new) |-> embedding_map[hashes[new[j]]]]

\* the re-assembly: a chunk whose key is in embedding_map gets the vector
\* of the map, any other chunk the next cached vector
Reassemble(hashes, embedding_map, temp_embeddings) ==
    LET cached_idx(k) == Cardinality({j \in 1..k : hashes[j] \notin DOMAIN embedding_map})
    IN  [k \in 1..Len(hashes) |->
            IF hashes[k] \in DOMAIN embedding_map
            THEN embedding_map[hashes[k]]
            ELSE temp_embeddings[cached_idx(k)]]

\* after the last batch: every new vector is written to the cache, then the
\* embeddings of all chunks are put together in chunk order
\* variant: the cache directory is emptied before the vectors are saved
_cache_embedding_cleared(cache, embedding_map) == embedding_map

\* _cache_embedding for each new vector: np.save writes the file of the key,
\* replacing a file of that name
_cache_embedding(cache, embedding_map) == embedding_map @@ cache

CacheWrite(s) ==
    LET r          == run[s]
        new_hashes == [i \in 1..Len(r.generated_embeddings) |->
                          r.chunks_to_embed_metadata[i].chunk_hash]
        embedding_map == [h \in Range(new_hashes) |->
                             r.generated_embeddings[LastAt(new_hashes, h)]]
        temp_embeddings == r.all_chunk_embeddings
    IN  /\ r.pc = "cache"
        /\ cacheDir' = _cache_embedding(cacheDir, embedding_map)
        /\ run' = [run EXCEPT ![s] =
              [r EXCEPT
                 !.all_chunk_embeddings =
                     Reassemble(r.all_chunk_hashes, embedding_map, temp_embeddings),
                 !.n_cache_put = @ + Len(r.generated_embeddings),
                 !.pc = "upsert"]]
        /\ UNCHANGED <<loading, upload, metrics, retriever, query, chunker, generation,
                       request, manifestFile, collection, EMBED_MODEL, loader, history,
                       started, savers, faulty>>

\* collection.upsert of the index collaborator: a batch of distinct ids is
\* taken whenever the index works; what the client does with a batch that
\* repeats an id is not decided by this repository (it may raise on every
\* attempt, or keep the last record of the id)
UpsertAccepts(ids) == \A i, j \in 1..Len(ids) : ids[i] = ids[j] => i = j

\* variant: only the first record of the batch is taken
Upserted_first_only(coll, ids, embeddings, metadatas, documents) ==
    (ids[1] :> [embedding |-> embeddings[1], metadata |-> metadatas[1],
                document |-> documents[1]]) @@ coll

Upserted(coll, ids, embeddings, metadatas, documents) ==
    [id \in Range(ids) |->
        LET i == LastAt(ids, id)
        IN  [embedding |-> embeddings[i], metadata |-> metadatas[i],
             document |-> documents[i]]] @@ coll

\* 6. one attempt of _upsert_to_chroma on the whole chunk set; the second
\* failure marks every hash of the call as failed
UpsertAttempt(s) ==
    \E index_ok \in BOOLEAN :
        LET r        == run[s]
            ok       == index_ok
            repeated == ~UpsertAccepts(r.all_chunk_hashes)
        IN  /\ r.pc = "upsert"
            /\ index_ok \/ repeated \/ MayFail(r.upsert_tries)
            /\ faulty' = IF index_ok \/ repeated THEN faulty
                         ELSE Charge(r.upsert_tries)
            /\ IF r.all_chunk_hashes = <<>>
               THEN /\ index_ok
                    /\ run' = [run EXCEPT ![s] = [r EXCEPT !.pc = "manifest"]]
                    /\ UNCHANGED collection
               ELSE IF ok
               THEN /\ collection' = Upserted(collection, r.all_chunk_hashes,
                                              r.all_chunk_embeddings,
                                              r.all_chunk_metadatas, r.all_chunk_texts)
                    /\ run' = [run EXCEPT ![s] = [r EXCEPT !.n_upsert = @ + 1,
                                                          !.pc = "manifest"]]
               ELSE /\ UNCHANGED collection
                    /\ run' = [run EXCEPT ![s] =
                          [r EXCEPT
                             !.n_upsert = @ + 1, !.upsert_tries = @ + 1,
                             !.faults = @ + 1,
                             !.failed_upsert_hashes =
                                 IF ~GivesUp(r.upsert_tries + 1, UPSERT_MAX_TRIES)
                                 THEN @ ELSE Range(r.all_chunk_hashes),
                             !.pc = IF ~GivesUp(r.upsert_tries + 1, UPSERT_MAX_TRIES)
                                    THEN "upsert" ELSE "manifest"]]
            /\ UNCHANGED <<loading, upload, metrics, retriever, query, chunker,
                           generation, request, manifestFile, cacheDir, EMBED_MODEL,
                           loader, history, started, savers>>

\* 7. every hash of the call is recorded in the entry of the doc_id, the
\* final status set and the manifest written
ManifestUpdate(s) ==
    LET r      == run[s]
        hashes == r.all_chunk_hashes
        recorded ==
            [h \in Range(hashes) |->
                [status |-> IF h \in r.failed_upsert_hashes
                            THEN "upsert_failed" ELSE "completed",
                 metadata |-> r.all_chunk_metadatas[LastAt(hashes, h)]]]
        final_status == IF r.failed_upsert_hashes # {}
                        THEN "completed_with_errors" ELSE "completed"
        manifest == [r.manifest EXCEPT ![r.doc_id] =
                        [@ EXCEPT !.chunks = recorded @@ @,
                                  !.status = final_status]]
    IN  /\ r.pc = "manifest"
        /\ Written(s, manifest)
        /\ run' = [run EXCEPT ![s] = [r EXCEPT !.manifest = manifest,
                                              !.n_manifest_write = @ + 1,
                                              !.pc = "report"]]
        /\ UNCHANGED <<loading, upload, metrics, retriever, query, chunker, generation,
                       request, cacheDir, collection, EMBED_MODEL, loader, history,
                       started, faulty>>

\* 8. the report is built and returned
Report(s) ==
    LET r == run[s]
        report ==
            [ingest_run_id |-> r.run_id,
             doc_id |-> r.doc_id,
             status |-> r.manifest[r.doc_id].status,
             total_chunks |-> Len(r.all_chunk_hashes),
             new_embeddings |-> r.newly_embedded_count,
             cached_embeddings |-> Len(r.all_chunk_hashes) - r.newly_embedded_count,
             elapsed_time_seconds |-> 0,
             failed_upserts |-> Cardinality(r.failed_upsert_hashes)]
    IN  /\ r.pc = "report"
        /\ run' = [run EXCEPT ![s] = [r EXCEPT !.result = report, !.pc = "done"]]
        /\ UNCHANGED <<loading, upload, metrics, retriever, query, chunker, generation,
                       request, manifestFile, cacheDir, collection, EMBED_MODEL,
                       loader, history, started, savers, faulty>>

\* the caller has the returned value; the slot is free for the next call
Return(s) ==
    LET r == run[s]
    IN  /\ r.pc = "done"
        /\ history' = Append(history,
              [run_id |-> r.run_id, doc_id |-> r.doc_id, file_path |-> r.file_path,
               embed_model |-> r.embed_model, result |-> r.result,
               hashes |-> r.all_chunk_hashes,
               token_based |-> r.token_based, last_error |-> r.last_error,
               final_status |-> r.manifest[r.doc_id].status,
               savers_at_load |-> r.savers_at_load,
               manifest_before |-> r.manifest_before,
               index_before |-> r.index_before, index_after |-> DOMAIN collection,
               cache_before |-> r.cache_before,
               n_chunker |-> r.n_chunker, n_cache_get |-> r.n_cache_get,
               n_cache_put |-> r.n_cache_put, n_embed |-> r.n_embed,
               n_upsert |-> r.n_upsert, n_manifest_write |-> r.n_manifest_write,
               faults |-> r.faults])
        /\ run' = [run EXCEPT ![s] = IdleRun]
        /\ UNCHANGED <<loading, upload, metrics, retriever, query, chunker, generation,
                       request, manifestFile, cacheDir, collection, EMBED_MODEL,
                       loader, started, savers, faulty>>

\* the operator sets EMBED_MODEL to another model between calls
SetModel ==
    \E m \in Models :
        /\ m # EMBED_MODEL
        /\ \A s \in Slots : run[s].pc = "idle"
        /\ 0 < started /\ started < MaxRuns
        /\ EMBED_MODEL' = m
        /\ UNCHANGED <<loading, upload, metrics, retriever, query, chunker, generation,
                       request, manifestFile, cacheDir, collection, loader, run,
                       history, started, savers, faulty>>

Step(s) ==
    \/ Parse(s)
    \/ Chunk(s)
    \/ EmbedAttempt(s)
    \/ CacheWrite(s)
    \/ UpsertAttempt(s)
    \/ ManifestUpdate(s)
    \/ Report(s)
    \/ Return(s)

\* calls made one after another: a call starts when no other is under way
Next ==
    \/ (\A t \in Slots : run[t].pc = "idle") /\ Start(1)
    \/ Step(1)
    \/ SetModel

Spec == Init /\ [][Next]_vars

\* a call that has started keeps running: ingest_document is straight-line
\* code with bounded loops, run by the thread that called it
FairSpec == Spec /\ WF_vars(Step(1))

\* two callers of ingest_document on the same manifest, cache and index:
\* the second call is made at any time after the first was, while it runs or
\* after it has returned
ConcUploads == {<<"A", "report.txt">>, <<"B", "short.txt">>, <<"B", "notes.md">>}
ConcStart(s) == \E u \in ConcUploads : started = s - 1 /\ Call(s, u[1], u[2])

ConcNext ==
    \/ ConcStart(1)
    \/ ConcStart(2)
    \/ Step(1)
    \/ Step(2)

ConcSpec == Init /\ [][ConcNext]_vars

\* calls made one after another on a document, its edited version and a
\* document that has characters but no tokens
RevisionUploads == {<<"A", "report.txt">>, <<"A", "revised.txt">>, <<"A", "marks.txt">>}
RevisionStart(s) == \E u \in RevisionUploads : Call(s, u[1], u[2])

RevisionNext ==
    \/ (\A t \in Slots : run[t].pc = "idle") /\ RevisionStart(1)
    \/ Step(1)

RevisionSpec == Init /\ [][RevisionNext]_vars

\* ------------------------------------------------------------------------
\* Direct calls of _get_embedding_model_and_tokenizer, between changes of
\* EMBED_MODEL
\* ------------------------------------------------------------------------
\* number of loader calls in one behaviour
MaxLoaderCalls == 6

LoaderIdle ==
    UNCHANGED <<manifestFile, cacheDir, collection, run, history, started, savers,
                faulty, retriever, query, chunker, generation, request, upload,
                metrics>>

\* one call: it returns the two singletons or raises
LoaderCall ==
    \E model_step \in LoadSteps, tokenizer_step \in LoadSteps :
        LET out == LoaderTry(loader, EMBED_MODEL, model_step, tokenizer_step)
        IN  /\ loading.n_calls < MaxLoaderCalls
            /\ LoadAttempted \/ (model_step = "ok" /\ tokenizer_step = "ok")
            /\ model_step = "ok" \/ tokenizer_step = "ok"
            /\ loader' = out.state
            /\ loading' =
                  [pc        |-> IF out.raised THEN "raised" ELSE "returned",
                   model     |-> IF out.raised THEN None ELSE out.state.model,
                   tokenizer |-> IF out.raised THEN None ELSE out.state.tokenizer,
                   n_calls   |-> loading.n_calls + 1]
            /\ UNCHANGED EMBED_MODEL
            /\ LoaderIdle

\* os.environ["EMBED_MODEL"] is set to another name; no call is under way
LoaderSetEnv ==
    \E m \in Models :
        /\ m # EMBED_MODEL
        /\ loading.n_calls < MaxLoaderCalls
        /\ EMBED_MODEL' = m
        /\ loading' = [IdleLoading EXCEPT !.n_calls = loading.n_calls]
        /\ UNCHANGED loader
        /\ LoaderIdle

LoaderNext ==
    \/ LoaderCall
    \/ LoaderSetEnv

LoaderSpec == Init /\ [][LoaderNext]_vars

\* ------------------------------------------------------------------------
\* Properties
\* ------------------------------------------------------------------------
Terminal == {"completed", "completed_with_errors", "failed", "failed_empty"}

ReportFields ==
    {"ingest_run_id", "doc_id", "status", "total_chunks", "new_embeddings",
     "cached_embeddings", "elapsed_time_seconds", "failed_upserts"}

\* ------------------------------------------------------------------------
\* Retrieval: query_collection
\* ------------------------------------------------------------------------
\* the requests tried: top_k and rerank_k from -1 up to these
MaxTopK == 5
MaxRerankK == 3
\* the cross-encoder's scores are drawn from 0..MaxScore
MaxScore == 2

\* variant: the first argument is taken
Max_first(a, b) == a

Max(a, b) == IF a > b THEN a ELSE b

\* seq[:k] of Python for any integer k: a negative k counts from the end
Prefix(seq, k) ==
    IF k >= 0 THEN SubSeq(seq, 1, Min(k, Len(seq)))
    ELSE SubSeq(seq, 1, Max(Len(seq) + k, 0))

\* variant: the lowest score comes first
Rank_ascending(scores, i) ==
    Cardinality({j \in 1..Len(scores) :
                    scores[j] < scores[i] \/ (scores[j] = scores[i] /\ j < i)}) + 1

\* the place of element i after sorted(..., key=score, reverse=True): the
\* sort is stable, elements of equal score keep their order
Rank(scores, i) ==
    Cardinality({j \in 1..Len(scores) :
                    scores[j] > scores[i] \/ (scores[j] = scores[i] /\ j < i)}) + 1

SortedByScore(chunks, scores) ==
    [p \in 1..Len(chunks) |->
        chunks[CHOOSE i \in 1..Len(chunks) : Rank(scores, i) = p]]

\* the index after a fault-free ingestion of a file under the default model
Ingested(coll, doc_id, path) ==
    LET chunks == ChunkTable[path].token
        model  == "all-MiniLM-L6-v2"
        n      == Len(chunks)
        hashes == [k \in 1..n |-> _get_chunk_hash(doc_id, chunks[k], model)]
    IN  Upserted(coll, hashes,
                 [k \in 1..n |-> Encoding(model, chunks[k].text)],
                 [k \in 1..n |->
                     [doc_id |-> doc_id, file_path |-> path,
                      start_char |-> chunks[k].start, end_char |-> chunks[k].end,
                      chunk_hash |-> hashes[k], embed_model |-> model]],
                 [k \in 1..n |-> chunks[k].text])

\* the indexes queried: empty, 1, 3 and 4 records
QueryIndexes ==
    {NoMap,
     Ingested(NoMap, "B", "short.txt"),
     Ingested(NoMap, "A", "report.txt"),
     Ingested(Ingested(NoMap, "A", "report.txt"), "B", "short.txt")}

QueryTexts == {"How do I appeal a financial penalty?"}

\* collection.query(n_results = n): the nearest records, nearest first.  The
\* distance of a record to the query is the index's business: any order of
\* min(n, count) distinct records may come back.
Answers(coll, n) ==
    LET m == Min(n, Cardinality(DOMAIN coll))
    IN  {ids \in [1..m -> DOMAIN coll] :
            \A i, j \in 1..m : ids[i] = ids[j] => i = j}

\* variant: an empty answer is not told apart
NoResults_never(ids) == FALSE

\* not results or not results.get('ids') or not results['ids'][0]
NoResults(ids) == Len(ids) = 0

IngestionIdle ==
    UNCHANGED <<manifestFile, cacheDir, collection, EMBED_MODEL, loader, run, history,
                started, savers, faulty, loading, upload, metrics>>

\* the call is made; a model that did not load at import raises
QueryEnter(text, top_k, rerank_k) ==
    /\ query.pc = "idle"
    /\ query' =
          IF ~retriever.embedding_model
          THEN [IdleQuery EXCEPT !.pc = "raised", !.query_text = text,
                   !.top_k = top_k, !.rerank_k = rerank_k,
                   !.error = "Embedding model is not available."]
          ELSE IF ~retriever.reranker_model
          THEN [IdleQuery EXCEPT !.pc = "raised", !.query_text = text,
                   !.top_k = top_k, !.rerank_k = rerank_k,
                   !.error = "Re-ranking model is not available."]
          ELSE [IdleQuery EXCEPT !.pc = "connect", !.query_text = text,
                   !.top_k = top_k, !.rerank_k = rerank_k]

\* a direct call, with any request
QueryCall ==
    \E text \in QueryTexts, top_k \in -1..MaxTopK, rerank_k \in -1..MaxRerankK :
        /\ QueryEnter(text, top_k, rerank_k)
        /\ UNCHANGED <<retriever, chunker, generation, request>>
        /\ IngestionIdle

\* the client and the collection are obtained, or RuntimeError is raised;
\* then initial_retrieval_k is computed
Connect ==
    \E available \in BOOLEAN :
        /\ query.pc = "connect"
        /\ query' =
              IF available
              THEN [query EXCEPT
                      !.initial_retrieval_k = Max(query.top_k, query.rerank_k * 3),
                      !.pc = "query"]
              ELSE [query EXCEPT
                      !.error = "ChromaDB collection 'compliance_chunks' is not available.",
                      !.pc = "raised"]
        /\ UNCHANGED <<retriever, chunker, generation, request>>
        /\ IngestionIdle

\* collection.query: the index answers, or raises (the exception leaves
\* query_collection).  What the index does with n_results < 1 is not decided
\* by this repository: it raises or answers with nothing.
IndexQuery ==
    \E ok \in BOOLEAN :
        /\ query.pc = "query"
        /\ IF ~ok
           THEN query' = [query EXCEPT !.error = "query failed", !.pc = "raised",
                                       !.n_query = @ + 1,
                                       !.n_results = query.initial_retrieval_k]
           ELSE \E ids \in Answers(collection, Max(query.initial_retrieval_k, 0)) :
                  LET initial_chunks ==
                          [i \in 1..Len(ids) |->
                              [id |-> ids[i], distance |-> i,
                               document |-> collection[ids[i]].document,
                               metadata |-> collection[ids[i]].metadata]]
                  IN  query' = [query EXCEPT
                                  !.initial_chunks = initial_chunks,
                                  !.n_query = @ + 1,
                                  !.n_results = query.initial_retrieval_k,
                                  !.pc = IF NoResults(ids) THEN "returned" ELSE "rerank"]
        /\ UNCHANGED <<retriever, chunker, generation, request>>
        /\ IngestionIdle

\* more candidates than rerank_k, rerank_k positive: every pair is scored,
\* the candidates are sorted by score, the first rerank_k are kept
Rerank ==
    LET docs == {query.initial_chunks[i].document : i \in 1..Len(query.initial_chunks)}
    IN  \E predict \in [docs -> 0..MaxScore] :
            LET re_rank_scores ==
                    [i \in 1..Len(query.initial_chunks) |->
                        predict[query.initial_chunks[i].document]]
                scored_chunks == SortedByScore(query.initial_chunks, re_rank_scores)
            IN  /\ query.pc = "rerank"
                /\ Len(query.initial_chunks) > query.rerank_k /\ query.rerank_k > 0
                /\ query' = [query EXCEPT
                                !.re_rank_scores = re_rank_scores,
                                !.n_predict = @ + 1,
                                !.retrieved_chunks = Prefix(scored_chunks, query.rerank_k),
                                !.pc = "returned"]
                /\ UNCHANGED <<retriever, chunker, generation, request>>
                /\ IngestionIdle

\* otherwise: initial_chunks[:rerank_k]
SkipRerank ==
    /\ query.pc = "rerank"
    /\ ~(Len(query.initial_chunks) > query.rerank_k /\ query.rerank_k > 0)
    /\ query' = [query EXCEPT
                    !.retrieved_chunks = Prefix(query.initial_chunks, query.rerank_k),
                    !.pc = "returned"]
    /\ UNCHANGED <<retriever, chunker, generation, request>>
    /\ IngestionIdle

\* the caller has the value or the exception
QueryReturn ==
    /\ query.pc \in {"returned", "raised"}
    /\ query' = IdleQuery
    /\ UNCHANGED <<retriever, chunker, generation, request>>
    /\ IngestionIdle

\* the retriever module was imported, its models loaded or not, and some
\* documents were ingested before the queries
QueryInit ==
    /\ manifestFile = NoMap
    /\ cacheDir = NoMap
    /\ collection \in QueryIndexes
    /\ EMBED_MODEL = "all-MiniLM-L6-v2"
    /\ loader = [name |-> None, model |-> None, tokenizer |-> None, token_based |-> FALSE]
    /\ run = [s \in Slots |-> IdleRun]
    /\ history = <<>>
    /\ started = 0
    /\ savers = <<>>
    /\ faulty = 0
    /\ retriever \in [embedding_model : BOOLEAN, reranker_model : BOOLEAN]
    /\ query = IdleQuery
    /\ chunker = IdleChunker
    /\ generation = IdleGeneration
    /\ request = IdleRequest
    /\ loading = IdleLoading
    /\ upload = IdleUpload
    /\ metrics = NoMetrics

QueryNext ==
    \/ QueryCall
    \/ Connect
    \/ IndexQuery
    \/ Rerank
    \/ SkipRerank
    \/ QueryReturn

QuerySpec == QueryInit /\ [][QueryNext]_vars

\* ------------------------------------------------------------------------
\* _chunk_text called on its own, character strategy
\* ------------------------------------------------------------------------
\* the longest text chunked
MaxTextLen == 6000

\* the lengths tried: every 116th, and those around the window and stride
TextLengths ==
    {n \in 0..MaxTextLen : n % 116 = 0}
        \cup {1, 2319, 2321, 2799, 2800, 2801, 4639, 4641, 5119, 5120, 5121}

\* a text of n characters in which no window repeats another
TextOfLength(n) ==
    [i \in 1..n |-> IF i % 7 = 0 THEN " " ELSE IF (i \div 7) % 2 = 0 THEN "a" ELSE "b"]

\* the loader has failed: token_based_chunking is False
ChunkerCall ==
    \E n \in TextLengths :
        /\ chunker.pc = "idle"
        /\ chunker' = [IdleChunker EXCEPT !.pc = "called", !.text = TextOfLength(n)]
        /\ UNCHANGED <<retriever, query, generation, request>>
        /\ IngestionIdle

ChunkerReturn ==
    /\ chunker.pc = "called"
    /\ chunker' = [chunker EXCEPT !.chunks = _chunk_text(chunker.text, chunker.token_based),
                                  !.pc = "done"]
    /\ UNCHANGED <<retriever, query, generation, request>>
    /\ IngestionIdle

ChunkerNext ==
    \/ ChunkerCall
    \/ ChunkerReturn

ChunkerSpec == Init /\ [][ChunkerNext]_vars

\* ------------------------------------------------------------------------
\* Generation: generate_answer, and the /query/ endpoint
\* ------------------------------------------------------------------------
OLLAMA_API_BASE_URL == "http://localhost:11434"

NoRelevantInformation ==
    "I couldn't find any relevant information to answer your question."
EmptyResponse == "I received an empty response from the language model."
NetworkError ==
    "Failed to connect to the language model. Please ensure Ollama is running at "
        \o OLLAMA_API_BASE_URL \o "."
HttpError(status_code, text) ==
    "Language model returned an error: " \o ToString(status_code) \o " - " \o text
UnexpectedError == "An unexpected error occurred while generating the answer."

\* str.strip() of a text given as its characters
RECURSIVE LStrip(_)
LStrip(t) == IF t # <<>> /\ t[1] \in Whitespace THEN LStrip(Tail(t)) ELSE t
RECURSIVE RStrip(_)
RStrip(t) ==
    IF t # <<>> /\ t[Len(t)] \in Whitespace THEN RStrip(SubSeq(t, 1, Len(t) - 1)) ELSE t
Strip(t) == RStrip(LStrip(t))

\* "\n\n".join(documents)
RECURSIVE JoinDocuments(_)
JoinDocuments(docs) ==
    IF docs = <<>> THEN ""
    ELSE IF Len(docs) = 1 THEN docs[1]
    ELSE docs[1] \o "\n\n" \o JoinDocuments(Tail(docs))

Prompt(query_text, retrieved_chunks) ==
    "Using the following context, answer the question at the end. \n"
        \o "If you don't know the answer, just say that you don't know, "
        \o "don't try to make up an answer.\n\nContext:\n"
        \o JoinDocuments([i \in 1..Len(retrieved_chunks) |-> retrieved_chunks[i].document])
        \o "\n\nQuestion: " \o query_text \o "\nAnswer:"

\* what httpx.post and the lines after it may do: a JSON body with or
\* without the key "response", a body that is no JSON, a network error, an
\* error status
PostOutcomes ==
    {[kind |-> "json", data |-> [response |-> <<"3", "0", " ", "d", "a", "y", "s">>]],
     [kind |-> "json", data |-> [response |-> <<" ", "n", "o", "\n">>]],
     [kind |-> "json", data |-> [response |-> <<" ", "\n">>]],
     [kind |-> "json", data |-> [response |-> <<>>]],
     [kind |-> "json", data |-> [error |-> <<"x">>]],
     [kind |-> "not_json"],
     [kind |-> "request_error"],
     [kind |-> "http_status", status_code |-> 500, text |-> "model not loaded"],
     [kind |-> "http_status", status_code |-> 404, text |-> ""]}

\* variant: the API is asked whatever the chunks are
NoChunks_never(retrieved_chunks) == FALSE

\* not retrieved_chunks
NoChunks(retrieved_chunks) == Len(retrieved_chunks) = 0

\* the call is made; without chunks it returns at once
GenerateEnter(query_text, retrieved_chunks) ==
    /\ generation.pc = "idle"
    /\ generation' =
          IF NoChunks(retrieved_chunks)
          THEN [IdleGeneration EXCEPT !.pc = "returned", !.query = query_text,
                   !.retrieved_chunks = retrieved_chunks,
                   !.status = "no_relevant_chunks",
                   !.answer = NoRelevantInformation]
          ELSE [IdleGeneration EXCEPT !.pc = "post", !.query = query_text,
                   !.retrieved_chunks = retrieved_chunks,
                   !.prompt = Prompt(query_text, retrieved_chunks)]

\* the try block of generate_answer and its except branches: every outcome
\* becomes a returned string
AnswerOf(outcome) ==
    IF outcome.kind = "json"
    THEN LET generated_text ==
                 IF "response" \in DOMAIN outcome.data
                 THEN Strip(outcome.data.response) ELSE <<>>
         IN  IF generated_text = <<>>
             THEN [pc |-> "returned", status |-> "empty_response", answer |-> EmptyResponse]
             ELSE [pc |-> "returned", status |-> "success", answer |-> Str(generated_text)]
    ELSE IF outcome.kind = "request_error"
    THEN [pc |-> "returned", status |-> "network_error", answer |-> NetworkError]
    ELSE IF outcome.kind = "http_status"
    THEN [pc |-> "returned", status |-> "http_error",
          answer |-> HttpError(outcome.status_code, outcome.text)]
    ELSE [pc |-> "returned", status |-> "unexpected_error", answer |-> UnexpectedError]

\* httpx.post to /api/generate and the handling of what comes back
Post ==
    \E outcome \in PostOutcomes :
        LET a == AnswerOf(outcome)
        IN  /\ generation.pc = "post"
            /\ generation' = [generation EXCEPT !.pc = a.pc, !.status = a.status,
                                                !.answer = a.answer, !.n_post = @ + 1]
            /\ UNCHANGED <<retriever, query, chunker, request>>
            /\ IngestionIdle

\* the chunk lists generate_answer is called with directly
GenerationInputs ==
    {<<>>,
     <<[id |-> "c1", distance |-> 1, document |-> "Appeals must be submitted in 30 days.",
        metadata |-> NoMap]>>,
     <<[id |-> "c1", distance |-> 1, document |-> "Appeals must be submitted in 30 days.",
        metadata |-> NoMap],
       [id |-> "c2", distance |-> 2, document |-> "The fine is $100.",
        metadata |-> NoMap]>>}

\* a direct call of generate_answer
GenerateCall ==
    \E text \in QueryTexts, chunks \in GenerationInputs :
        /\ request.pc = "idle"
        /\ GenerateEnter(text, chunks)
        /\ UNCHANGED <<retriever, query, chunker, request>>
        /\ IngestionIdle

\* the direct caller has the value or the exception
GenerateReturn ==
    /\ request.pc = "idle"
    /\ generation.pc \in {"returned", "raised"}
    /\ generation' = IdleGeneration
    /\ UNCHANGED <<retriever, query, chunker, request>>
    /\ IngestionIdle

\* the requests posted to /query/: the defaults, and a single chunk
QueryRequests == {[top_k |-> 5, rerank_k |-> 3], [top_k |-> 5, rerank_k |-> 1]}

\* POST /query/: status_code = 500 until decided
RequestReceive ==
    \E text \in QueryTexts, q \in QueryRequests :
        /\ request.pc = "idle"
        /\ generation.pc = "idle"
        /\ query.pc = "idle"
        /\ request' = [IdleRequest EXCEPT !.pc = "retrieve", !.query_text = text,
                                          !.top_k = q.top_k, !.rerank_k = q.rerank_k,
                                          !.status_code = 500]
        /\ UNCHANGED <<retriever, query, chunker, generation>>
        /\ IngestionIdle

\* query_collection is called
RequestRetrieve ==
    /\ request.pc = "retrieve"
    /\ QueryEnter(request.query_text, request.top_k, request.rerank_k)
    /\ request' = [request EXCEPT !.pc = "retrieving"]
    /\ UNCHANGED <<retriever, chunker, generation>>
    /\ IngestionIdle

\* query_collection is back: an exception gives HTTP 500, no chunk gives
\* 404, otherwise generate_answer is called
RequestRetrieved ==
    /\ request.pc = "retrieving"
    /\ query.pc \in {"returned", "raised"}
    /\ query' = IdleQuery
    /\ IF query.pc = "raised"
       THEN /\ request' = [request EXCEPT
                              !.pc = "responded", !.status_code = 500,
                              !.body = [detail |-> "An internal error occurred: "
                                                      \o query.error]]
            /\ UNCHANGED generation
       ELSE IF query.retrieved_chunks = <<>>
       THEN /\ request' = [request EXCEPT
                              !.pc = "responded", !.status_code = 404,
                              !.body = [message |->
                                          "No relevant documents found for retrieval."]]
            /\ UNCHANGED generation
       ELSE /\ request' = [request EXCEPT
                              !.pc = "generating",
                              !.retrieved_chunks = query.retrieved_chunks]
            /\ GenerateEnter(request.query_text, query.retrieved_chunks)
    /\ UNCHANGED <<retriever, chunker>>
    /\ IngestionIdle

\* generate_answer is back: its value is the answer of a 200 response; an
\* exception gives HTTP 500
RequestGenerated ==
    /\ request.pc = "generating"
    /\ generation.pc \in {"returned", "raised"}
    /\ generation' = IdleGeneration
    /\ request' =
          IF generation.pc = "raised"
          THEN [request EXCEPT
                  !.pc = "responded", !.status_code = 500,
                  !.body = [detail |-> "An internal error occurred: " \o generation.status],
                  !.generation_status = generation.status,
                  !.n_post = generation.n_post]
          ELSE [request EXCEPT
                  !.pc = "responded", !.status_code = 200,
                  !.body = [query |-> request.query_text,
                            answer |-> generation.answer,
                            retrieved_chunks |-> request.retrieved_chunks],
                  !.generation_status = generation.status,
                  !.n_post = generation.n_post]
    /\ UNCHANGED <<retriever, query, chunker>>
    /\ IngestionIdle

\* the response is sent
RequestRespond ==
    /\ request.pc = "responded"
    /\ request' = IdleRequest
    /\ UNCHANGED <<retriever, query, chunker, generation>>
    /\ IngestionIdle

AnswerNext ==
    \/ GenerateCall
    \/ Post
    \/ GenerateReturn
    \/ RequestReceive
    \/ RequestRetrieve
    \/ Connect
    \/ IndexQuery
    \/ Rerank
    \/ SkipRerank
    \/ RequestRetrieved
    \/ RequestGenerated
    \/ RequestRespond

AnswerSpec == QueryInit /\ [][AnswerNext]_vars

\* ------------------------------------------------------------------------
\* The /ingest/ endpoint: ingest_file
\* ------------------------------------------------------------------------
\* number of /ingest/ requests in one behaviour
MaxRequests == 3

\* the file names of the uploads offered; "" is an upload without a name
Filenames == {"", "report.txt", "empty.txt", "notes.md"}

\* Path(file.filename).stem
Stem(filename) ==
    CASE filename = "report.txt" -> "report"
      [] filename = "empty.txt"  -> "empty"
      [] filename = "notes.md"   -> "notes"

\* UPLOAD_DIR / f"{uuid4().hex}_{file.filename}": the temporary file has the
\* suffix and, once copied, the content of the upload; the paths of the
\* model name a suffix and a content, so the random prefix is left out
TempPath(filename) == filename

HTTPException(status_code, detail) == [status_code |-> status_code, detail |-> detail]

\* everything but the request and the metrics stays as it is
UploadIdle ==
    UNCHANGED <<manifestFile, cacheDir, collection, EMBED_MODEL, loader, run, history,
                started, savers, faulty, retriever, query, chunker, generation, request,
                loading>>

\* the request arrives: status_code = 500, the gauge is incremented
UploadReceive ==
    \E filename \in Filenames :
        /\ upload.pc \in {"idle", "responded"}
        /\ \A s \in Slots : run[s].pc = "idle"
        /\ upload.n_requests < MaxRequests
        /\ filename # "" => started < MaxRuns
        /\ upload' = [IdleUpload EXCEPT !.pc = "check", !.filename = filename,
                                        !.status_code = 500,
                                        !.n_requests = upload.n_requests + 1,
                                        !.n_empty = upload.n_empty
                                                    + (IF filename = "" THEN 1 ELSE 0),
                                        !.started_before = started]
        /\ metrics' = [metrics EXCEPT !.in_progress = @ + 1]
        /\ UploadIdle

\* the name is checked and the upload copied to the temporary file; a
\* missing name raises HTTPException 400, a failing copy ends in the
\* except Exception branch
UploadSave ==
    \E copy_ok \in BOOLEAN :
        /\ upload.pc = "check"
        /\ upload.filename = "" => copy_ok
        /\ upload' =
              IF upload.filename = ""
              THEN [upload EXCEPT
                      !.status_code = 400,
                      !.raised = HTTPException(400, "No file name provided."),
                      !.pc = "finally"]
              ELSE IF ~copy_ok
              THEN [upload EXCEPT
                      !.doc_id = Stem(upload.filename),
                      !.temp_path = TempPath(upload.filename),
                      !.status_code = 500,
                      !.raised = HTTPException(500, "An internal error occurred: copy"),
                      !.pc = "finally"]
              ELSE [upload EXCEPT
                      !.doc_id = Stem(upload.filename),
                      !.temp_path = TempPath(upload.filename),
                      !.temp_exists = TRUE,
                      !.pc = "ingest"]
        /\ UNCHANGED metrics
        /\ UploadIdle

\* ingest_document(str(temp_path), doc_id) is called
UploadIngest ==
    /\ upload.pc = "ingest"
    /\ Call(1, upload.doc_id, upload.temp_path)

\* ingest_document has returned: a report with status failed raises
\* HTTPException 500 with the report as detail, any other is answered 200
UploadIngested ==
    /\ upload.pc = "ingest"
    /\ run[1].pc = "done"
    /\ LET report == run[1].result
       IN  upload' =
             IF report.status = "failed"
             THEN [upload EXCEPT !.status_code = 500,
                                 !.raised = HTTPException(500, report),
                                 !.n_ingest = @ + 1,
                                 !.pc = "finally"]
             ELSE [upload EXCEPT !.status_code = 200,
                                 !.content = [message |-> "Successfully ingested "
                                                          \o upload.filename,
                                              report |-> report],
                                 !.n_ingest = @ + 1,
                                 !.pc = "finally"]
    /\ UNCHANGED metrics
    /\ UploadIdle

\* the finally block: gauge, latency, counter; then temp_path.exists(),
\* which raises UnboundLocalError when temp_path was never assigned, and
\* file.close().  An exception leaving the handler that is not an
\* HTTPException is answered 500 Internal Server Error by the framework.
UploadFinally ==
    /\ upload.pc = "finally"
    /\ metrics' = [metrics EXCEPT
                     !.in_progress = @ - 1,
                     !.request_count[upload.status_code] = @ + 1]
    /\ upload' =
          IF upload.temp_path = None
          THEN [upload EXCEPT
                  !.response = [status_code |-> 500,
                                detail |-> "Internal Server Error"],
                  !.pc = "responded"]
          ELSE [upload EXCEPT
                  !.temp_exists = FALSE,
                  !.closed = TRUE,
                  !.response = IF upload.raised # NoMap
                               THEN upload.raised
                               ELSE [status_code |-> 200, content |-> upload.content],
                  !.pc = "responded"]
    /\ UploadIdle

\* the caller of ingest_document has the returned value
UploadReturn ==
    /\ upload.pc # "ingest"
    /\ Return(1)

UploadNext ==
    \/ UploadReceive
    \/ UploadSave
    \/ UploadIngest
    \/ Parse(1)
    \/ Chunk(1)
    \/ EmbedAttempt(1)
    \/ CacheWrite(1)
    \/ UpsertAttempt(1)
    \/ ManifestUpdate(1)
    \/ Report(1)
    \/ UploadIngested
    \/ UploadFinally
    \/ UploadReturn

UploadSpec == Init /\ [][UploadNext]_vars

\* the call in slot s is at its return
Done(s) == run[s].pc = "done"

FullReport(result) == DOMAIN result = ReportFields

\* the parsed text of the file has no character outside whitespace
NoVisibleText(path) ==
    /\ path \in DOMAIN FileSystem
    /\ Suffix(path) \in {".pdf", ".txt"}
    /\ LET parts == IF Suffix(path) = ".pdf" THEN FileSystem[path]
                    ELSE <<FileSystem[path]>>
       IN  \A k \in 1..Len(parts) : \A i \in 1..Len(parts[k]) :
               parts[k][i] \in {" ", "\n"}

\* parsing the file raises
ParseRaises(path) ==
    path \notin DOMAIN FileSystem \/ Suffix(path) \notin {".pdf", ".docx", ".txt"}

EmbedExhausted(r) == r.embed_tries = EMBED_MAX_TRIES
UpsertExhausted(r) == r.upsert_tries = UPSERT_MAX_TRIES

\* C1: a second run of the same file, doc_id and model, with every
\* collaborator succeeding, after a run that returned completed, returns
\* completed with new_embeddings = 0 and cached_embeddings = total_chunks,
\* calls the embedding model zero times and leaves the number of index records
\* unchanged.
C1_IdempotentReingestion ==
    \A i, j \in 1..Len(history) :
        LET a == history[i]
            b == history[j]
        IN  (/\ i < j
             /\ a.doc_id = b.doc_id /\ a.file_path = b.file_path
             /\ a.embed_model = b.embed_model
             /\ a.result.status = "completed"
             /\ b.faults = 0)
            => /\ b.result.status = "completed"
               /\ b.result.new_embeddings = 0
               /\ b.result.cached_embeddings = b.result.total_chunks
               /\ b.n_embed = 0
               /\ Cardinality(b.index_after) = Cardinality(b.index_before)

\* C1 for two runs that chunk the same way (both by tokens or both by
\* characters): the second run then finds every chunk in the cache.
C1_SameStrategy ==
    \A i, j \in 1..Len(history) :
        LET a == history[i]
            b == history[j]
        IN  (/\ i < j
             /\ a.doc_id = b.doc_id /\ a.file_path = b.file_path
             /\ a.embed_model = b.embed_model
             /\ a.result.status = "completed"
             /\ a.token_based = b.token_based
             /\ b.faults = 0)
            => /\ b.result.status = "completed"
               /\ b.result.new_embeddings = 0
               /\ b.result.cached_embeddings = b.result.total_chunks
               /\ b.n_embed = 0
               /\ Cardinality(b.index_after) = Cardinality(b.index_before)

\* C2: every run returns, and at its return the manifest holds a terminal
\* status for its doc_id, never "processing".
C2_ReturnsWithTerminalStatus ==
    /\ [](Done(1) => /\ run[1].doc_id \in DOMAIN manifestFile
                     /\ manifestFile[run[1].doc_id].status \in Terminal)
    /\ (run[1].pc # "idle") ~> Done(1)

C2_Witness ==
    /\ Done(1)
    /\ run[1].faults >= 2
    /\ manifestFile[run[1].doc_id].status = "completed"

\* C3: at every return the manifest has been written, and the written
\* manifest holds the run's doc_id with the run's final status.
OutcomeStatus(r) ==
    IF FullReport(r.result) THEN r.result.status
    ELSE IF r.last_error = None THEN "failed_empty" ELSE "failed"

C3_ManifestPersistedBeforeReturn ==
    \A s \in Slots :
        Done(s) =>
            /\ run[s].n_manifest_write >= 1
            /\ run[s].doc_id \in DOMAIN manifestFile
            /\ manifestFile[run[s].doc_id] = run[s].manifest[run[s].doc_id]
            /\ manifestFile[run[s].doc_id].status = OutcomeStatus(run[s])
            /\ OutcomeStatus(run[s]) \in Terminal

C3_Witness ==
    /\ Done(1)
    /\ manifestFile[run[1].doc_id].status = "completed_with_errors"
    /\ run[1].manifest_before # NoMap

\* C4: when the upsert fails on both attempts the run returns a full report,
\* the manifest status is completed_with_errors, every chunk key of the run
\* is recorded upsert_failed and failed_upserts = total_chunks.
C4_UpsertExhaustion ==
    \A s \in Slots :
        (Done(s) /\ UpsertExhausted(run[s])) =>
            LET r == run[s]
            IN  /\ FullReport(r.result)
                /\ manifestFile[r.doc_id].status = "completed_with_errors"
                /\ \A k \in 1..Len(r.all_chunk_hashes) :
                       /\ r.all_chunk_hashes[k] \in DOMAIN manifestFile[r.doc_id].chunks
                       /\ manifestFile[r.doc_id].chunks[r.all_chunk_hashes[k]].status
                              = "upsert_failed"
                /\ r.result.failed_upserts = r.result.total_chunks

\* C5: when parsing raises or a batch embedding fails on all attempts, the
\* manifest is written with status failed and the text of the exception as
\* error_message, and no upsert is attempted.
ExceptionText(r) ==
    IF r.file_path \notin DOMAIN FileSystem THEN "File not found: " \o r.file_path
    ELSE IF ParseRaises(r.file_path)
    THEN "Unsupported file type: " \o Suffix(r.file_path)
    ELSE r.last_error

C5_FailureRecorded ==
    \A s \in Slots :
        (Done(s) /\ (ParseRaises(run[s].file_path) \/ EmbedExhausted(run[s]))) =>
            LET r == run[s]
            IN  /\ r.n_manifest_write >= 1
                /\ r.doc_id \in DOMAIN manifestFile
                /\ manifestFile[r.doc_id].status = "failed"
                /\ manifestFile[r.doc_id].error_message = {ExceptionText(r)}
                /\ r.n_upsert = 0
                /\ DOMAIN collection = r.index_before

C5_Witness ==
    /\ Done(1)
    /\ EmbedExhausted(run[1])
    /\ manifestFile[run[1].doc_id].error_message
           = {"Embedding model could not be loaded."}

C7_BlankDocument ==
    \A s \in Slots :
        (Done(s) /\ NoVisibleText(run[s].file_path)) =>
            LET r == run[s]
            IN  /\ r.n_manifest_write >= 1
                /\ r.doc_id \in DOMAIN manifestFile
                /\ manifestFile[r.doc_id].status = "failed_empty"
                /\ r.n_chunker = 0 /\ r.n_cache_get = 0 /\ r.n_cache_put = 0
                /\ r.n_embed = 0 /\ r.n_upsert = 0
                /\ Len(r.all_chunk_hashes) = 0
                /\ DOMAIN cacheDir = r.cache_before
                /\ DOMAIN collection = r.index_before

C7_Witness ==
    /\ Done(1)
    /\ run[1].file_path = "blank.pdf"
    /\ manifestFile[run[1].doc_id].status = "failed_empty"
    /\ run[1].index_before # {}

\* C8: for a blank document the returned value reports status failed_empty.
C8_BlankReportStatus ==
    \A s \in Slots :
        (Done(s) /\ NoVisibleText(run[s].file_path)) =>
            run[s].result.status = "failed_empty"

\* C9: every returned value is a report with all eight fields.
C9_AlwaysFullReport ==
    \A s \in Slots : Done(s) => FullReport(run[s].result)

\* C10: with two overlapping runs for different doc_ids, the entry of the
\* run that wrote first is missing from the manifest exactly when the other
\* run loaded the manifest before that write and wrote after it.
Lost(h) ==
    \/ h.doc_id \notin DOMAIN manifestFile
    \/ manifestFile[h.doc_id].status # h.final_status

WritePosition(run_id) == CHOOSE k \in 1..Len(savers) : savers[k] = run_id

Clobbers(later, h) ==
    /\ h.run_id \notin Range(later.savers_at_load)
    /\ WritePosition(h.run_id) < WritePosition(later.run_id)

C10_LostUpdateIffOverlap ==
    (Len(history) = 2 /\ history[1].doc_id # history[2].doc_id) =>
        /\ Lost(history[1]) <=> Clobbers(history[2], history[1])
        /\ Lost(history[2]) <=> Clobbers(history[1], history[2])

C10_Witness ==
    /\ Len(history) = 2
    /\ history[1].doc_id # history[2].doc_id
    /\ \E i \in {1, 2} : history[i].doc_id \notin DOMAIN manifestFile

\* the chunks of the call in slot s as the chunker made them
ChunksOf(r) ==
    IF r.token_based THEN ChunkTable[r.file_path].token ELSE ChunkTable[r.file_path].char

\* C11: the vectors of an embedded batch are in the cache before the next
\* batch is sent, and so are still there when a later batch has failed on all
\* its attempts.
C11_CacheWriteThrough ==
    \A s \in Slots :
        LET r == run[s]
        IN  ((r.pc = "embed" \/ (Done(s) /\ EmbedExhausted(r))) /\ r.batch_start > 0) =>
                \A i \in 1..Len(r.generated_embeddings) :
                    LET h == r.chunks_to_embed_metadata[i].chunk_hash
                    IN  /\ h \in DOMAIN cacheDir
                        /\ cacheDir[h] = r.generated_embeddings[i]

\* C12: the upsert gets ids, embeddings, metadatas and documents of length
\* total_chunks in chunker order, and the embedding at every position is the
\* cached vector of the key when the key was a hit, else the vector computed
\* for the text of that chunk.
C12_OrderPreservingReassembly ==
    \A s \in Slots :
        LET r      == run[s]
            chunks == ChunksOf(r)
            n      == Len(chunks)
        IN  (r.pc = "upsert" /\ r.all_chunk_hashes # <<>>) =>
                /\ Len(r.all_chunk_hashes) = n
                /\ Len(r.all_chunk_embeddings) = n
                /\ Len(r.all_chunk_metadatas) = n
                /\ Len(r.all_chunk_texts) = n
                /\ \A i \in 1..n :
                       /\ r.all_chunk_texts[i] = chunks[i].text
                       /\ r.all_chunk_metadatas[i].start_char = chunks[i].start
                       /\ r.all_chunk_metadatas[i].end_char = chunks[i].end
                       /\ r.all_chunk_metadatas[i].chunk_hash = r.all_chunk_hashes[i]
                       /\ r.all_chunk_embeddings[i] =
                              IF r.all_chunk_hashes[i] \in r.cache_before
                              THEN cacheDir[r.all_chunk_hashes[i]]
                              ELSE <<"vec", r.embed_model, chunks[i].text>>

C12_Witness ==
    LET r == run[1]
    IN  /\ r.pc = "upsert"
        /\ Len(r.all_chunk_hashes) = 3
        /\ r.all_chunk_hashes[1] \in r.cache_before
        /\ r.all_chunk_hashes[2] \notin r.cache_before
        /\ r.all_chunk_hashes[3] \in r.cache_before

\* C13: a batch is tried at most 3 times, a batch that has been embedded is
\* not tried again, and after the third failure the call is in its except
\* branch: no later batch embedded, nothing cached or upserted, status failed.
C13_EmbedRetryBound ==
    \A s \in Slots :
        LET r       == run[s]
            batches == RangeLen(Len(r.chunks_to_embed_texts), BATCH_SIZE)
        IN  /\ r.embed_tries <= EMBED_MAX_TRIES
            /\ r.n_embed <= EMBED_MAX_TRIES * batches
            /\ r.pc = "embed" =>
                   /\ r.embed_tries < EMBED_MAX_TRIES
                   /\ r.batch_start % BATCH_SIZE = 0
                   /\ Len(r.generated_embeddings) = r.batch_start
            /\ r.pc \in {"cache", "upsert", "manifest", "report"} =>
                   /\ r.embed_tries = 0
                   /\ Len(r.generated_embeddings) = r.newly_embedded_count
            /\ r.embed_tries = EMBED_MAX_TRIES =>
                   /\ Done(s)
                   /\ r.result = [status |-> "failed", reason |-> r.last_error]
                   /\ manifestFile[r.doc_id].status = "failed"
                   /\ Len(r.generated_embeddings) = r.batch_start
                   /\ r.batch_start < Len(r.chunks_to_embed_texts)
                   /\ r.n_cache_put = 0 /\ r.n_upsert = 0

C13_Witness ==
    /\ run[1].pc = "cache"
    /\ run[1].faults = 2
    /\ run[1].n_embed = 4

\* an upsert attempt of the call has succeeded
UpsertSucceeded(r) ==
    /\ r.pc \in {"manifest", "report", "done"}
    /\ r.n_upsert >= 1
    /\ r.upsert_tries < UPSERT_MAX_TRIES

\* C14: the upsert is attempted at most 2 times; an attempt that succeeds,
\* the first or the second, puts every chunk of the run into the index and
\* the run reports completed with failed_upserts = 0; a run without chunks
\* attempts no upsert.
C14_IndexWriter ==
    \A s \in Slots :
        LET r == run[s]
            n == Len(r.all_chunk_hashes)
        IN  /\ r.n_upsert <= UPSERT_MAX_TRIES
            /\ r.upsert_tries <= UPSERT_MAX_TRIES
            /\ r.pc = "upsert" => r.upsert_tries < UPSERT_MAX_TRIES
            /\ n = 0 => r.n_upsert = 0
            /\ UpsertSucceeded(r) =>
                   /\ \A i \in 1..n :
                          /\ r.all_chunk_hashes[i] \in DOMAIN collection
                          /\ \E j \in 1..n :
                                 /\ r.all_chunk_hashes[j] = r.all_chunk_hashes[i]
                                 /\ collection[r.all_chunk_hashes[i]] =
                                        [embedding |-> r.all_chunk_embeddings[j],
                                         metadata  |-> r.all_chunk_metadatas[j],
                                         document  |-> r.all_chunk_texts[j]]
                   /\ r.failed_upsert_hashes = {}
                   /\ Done(s) => /\ FullReport(r.result)
                                 /\ r.result.status = "completed"
                                 /\ r.result.failed_upserts = 0
                                 /\ manifestFile[r.doc_id].status = "completed"

C14_Witness ==
    /\ Done(1)
    /\ Len(run[1].all_chunk_hashes) = 3
    /\ run[1].n_upsert = 2
    /\ run[1].upsert_tries = 1
    /\ run[1].result.status = "completed"

\* a run that reached the upsert step without chunks
C14_NoChunks ==
    /\ Done(1)
    /\ run[1].n_chunker = 1
    /\ run[1].all_chunk_hashes = <<>>
    /\ run[1].result.status = "completed"

\* the same document under the same doc_id, b after a, b ran to its report
Reingestion(i, j) ==
    /\ i < j
    /\ history[i].doc_id = history[j].doc_id
    /\ history[i].file_path = history[j].file_path
    /\ FullReport(history[j].result)

\* C15: when a document is ingested again under the same doc_id and another
\* embedding model, the keys of the later run are disjoint from the keys of
\* the earlier run; the later run, the first of its model, has no cache hit:
\* new_embeddings = total_chunks and cached_embeddings = 0.
C15_ModelChangeInvalidation ==
    \A i, j \in 1..Len(history) :
        (Reingestion(i, j) /\ history[i].embed_model # history[j].embed_model) =>
            LET a == history[i]
                b == history[j]
            IN  /\ Range(a.hashes) \cap Range(b.hashes) = {}
                /\ (\A k \in 1..(j - 1) : history[k].embed_model # b.embed_model) =>
                       /\ Range(b.hashes) \cap b.cache_before = {}
                       /\ b.result.new_embeddings = b.result.total_chunks
                       /\ b.result.cached_embeddings = 0

C15_Witness ==
    /\ Len(history) = 2
    /\ Reingestion(1, 2)
    /\ history[1].embed_model # history[2].embed_model
    /\ history[1].result.status = "completed"
    /\ history[1].n_cache_put = 3
    /\ history[2].result.status = "completed"
    /\ history[2].result.total_chunks = 3
    /\ history[2].result.new_embeddings = 3

\* two calls that ran the chunker on the same text under the same doc_id
\* and model
SameKeyInputs(i, j) ==
    /\ i < j
    /\ history[i].doc_id = history[j].doc_id
    /\ history[i].file_path = history[j].file_path
    /\ history[i].embed_model = history[j].embed_model
    /\ history[i].n_chunker = 1
    /\ history[j].n_chunker = 1

\* C16: for a fixed doc_id, text and model the chunker followed by the key
\* function gives the same sequence of keys on every call.
C16_ChunkKeyDeterminism ==
    \A i, j \in 1..Len(history) :
        SameKeyInputs(i, j) => history[i].hashes = history[j].hashes

\* the keys are the same whenever both calls chunked with the same strategy
C16_DeterminismPerStrategy ==
    \A i, j \in 1..Len(history) :
        (SameKeyInputs(i, j) /\ history[i].token_based = history[j].token_based)
            => history[i].hashes = history[j].hashes

\* the chunks of a file under one strategy
FileChunks(path, token_based) ==
    IF token_based THEN ChunkTable[path].token ELSE ChunkTable[path].char

\* two chunks agree on offsets and on their first 64 characters
KeyPartsAgree(c, d) ==
    /\ c.start = d.start
    /\ c.end = d.end
    /\ c.first = d.first

\* two chunk lists agree, position by position, on the key components
SameKeyParts(cs, ds) ==
    /\ Len(cs) = Len(ds)
    /\ \A k \in 1..Len(cs) : KeyPartsAgree(cs[k], ds[k])

\* files that were read and are not blank
ReadablePaths == {p \in Paths : ParseTable[p].ok /\ ~ChunkTable[p].blank}

\* C17: chunks that agree on doc_id, start, end, first 64 characters and
\* model get the same key, whatever the rest of their text; a later run on
\* an edited document whose chunks agree with the earlier, cached run on
\* these components has the same keys and embeds nothing.
C17_KeyComponents ==
    /\ \A p, q \in ReadablePaths : \A tp, tq \in BOOLEAN :
          \A k \in 1..Len(FileChunks(p, tp)) : \A l \in 1..Len(FileChunks(q, tq)) :
             KeyPartsAgree(FileChunks(p, tp)[k], FileChunks(q, tq)[l]) =>
                \A m \in Models :
                   _get_chunk_hash("A", FileChunks(p, tp)[k], m)
                      = _get_chunk_hash("A", FileChunks(q, tq)[l], m)
    /\ \A i, j \in 1..Len(history) :
          LET a == history[i]
              b == history[j]
          IN  (/\ i < j
               /\ a.doc_id = b.doc_id
               /\ a.embed_model = b.embed_model
               /\ a.token_based = b.token_based
               /\ FullReport(a.result)
               /\ FullReport(b.result)
               /\ SameKeyParts(FileChunks(a.file_path, a.token_based),
                               FileChunks(b.file_path, b.token_based)))
              => /\ b.hashes = a.hashes
                 /\ b.result.new_embeddings = 0
                 /\ b.result.cached_embeddings = b.result.total_chunks
                 /\ b.n_embed = 0

C17_Witness ==
    /\ Len(history) = 2
    /\ history[1].file_path = "report.txt"
    /\ history[2].file_path = "revised.txt"
    /\ history[1].token_based /\ history[2].token_based
    /\ FileChunks("report.txt", TRUE)[1].text # FileChunks("revised.txt", TRUE)[1].text
    /\ FullReport(history[2].result)
    /\ history[2].result.total_chunks = 3
    /\ history[2].result.new_embeddings = 0

\* the keys a call is about to write to the cache
KeysToWrite(r) ==
    {r.chunks_to_embed_metadata[i].chunk_hash :
        i \in 1..Len(r.chunks_to_embed_metadata)}

\* C18: in calls made one after another a key of the cache keeps its vector
\* and is never removed, and the keys a call writes were absent from the
\* cache when the call looked them up.
C18_CacheImmutable ==
    [][/\ \A h \in DOMAIN cacheDir :
             h \in DOMAIN cacheDir' /\ cacheDir'[h] = cacheDir[h]
       /\ \A s \in Slots :
             run[s].pc = "cache" =>
                /\ KeysToWrite(run[s]) \cap run[s].cache_before = {}
                /\ KeysToWrite(run[s]) \cap DOMAIN cacheDir = {}
                /\ DOMAIN cacheDir' = DOMAIN cacheDir \cup KeysToWrite(run[s])]_vars

C18_Witness ==
    /\ Len(history) = 1
    /\ history[1].n_cache_put > 0
    /\ run[1].pc = "upsert"
    /\ run[1].n_cache_put > 0
    /\ run[1].cache_before # {}
    /\ run[1].cache_before \subseteq DOMAIN cacheDir
    /\ DOMAIN cacheDir # run[1].cache_before

\* two overlapping calls on the same document and model have both returned
BothFinished ==
    /\ Len(history) = 2
    /\ \A s \in Slots : run[s].pc = "idle"
    /\ history[1].doc_id = history[2].doc_id
    /\ history[1].file_path = history[2].file_path
    /\ history[1].embed_model = history[2].embed_model

\* C19: after two interleaved calls on the same document and model have
\* finished, every chunk key of either call that is in the cache holds the
\* vector of that chunk's text under the model, and every key of a call
\* that passed its cache write is in the cache.
C19_BenignCacheRace ==
    BothFinished =>
        \A x \in 1..2 :
            LET h == history[x]
                chunks == FileChunks(h.file_path, h.token_based)
            IN  \A k \in 1..Len(h.hashes) :
                   /\ h.hashes[k] \in DOMAIN cacheDir =>
                          cacheDir[h.hashes[k]] = <<"vec", h.embed_model, chunks[k].text>>
                   /\ FullReport(h.result) => h.hashes[k] \in DOMAIN cacheDir

\* both calls missed and both wrote the same keys
C19_Witness ==
    /\ BothFinished
    /\ history[1].hashes = history[2].hashes
    /\ Len(history[1].hashes) = 3
    /\ history[1].n_cache_put = 3
    /\ history[2].n_cache_put = 3

\* C20: a call of query_collection that returns, returns at most rerank_k
\* chunks, for any integers top_k and rerank_k.
C20_ResultLength ==
    query.pc = "returned" => Len(query.retrieved_chunks) <= query.rerank_k

\* the bound holds for the requests with rerank_k >= 0
C20_ResultLengthNonNegative ==
    (query.pc = "returned" /\ query.rerank_k >= 0)
        => Len(query.retrieved_chunks) <= query.rerank_k

\* a request with rerank_k = -1 over an index of 4 records returned 3 chunks
C20_NegativeRerankK ==
    /\ query.pc = "returned"
    /\ query.top_k = 5
    /\ query.rerank_k = -1
    /\ query.n_results = 5
    /\ Len(query.initial_chunks) = 4
    /\ Len(query.retrieved_chunks) = 3

\* the index has been asked by the call under way
IndexAsked == query.n_query = 1

Answered == query.pc = "returned" /\ IndexAsked

\* the candidates the index returned, by position, that are in the result
Selected ==
    {i \in 1..Len(query.initial_chunks) :
        \E p \in 1..Len(query.retrieved_chunks) :
            query.retrieved_chunks[p] = query.initial_chunks[i]}

\* the score the cross-encoder gave to a chunk of the result
ScoreOf(chunk) ==
    query.re_rank_scores[CHOOSE i \in 1..Len(query.initial_chunks) :
                            query.initial_chunks[i] = chunk]

\* C22: when the index returned more than rerank_k candidates and
\* rerank_k > 0, the cross-encoder is called once with every candidate, and
\* the result is rerank_k distinct candidates in non-increasing score order,
\* none scored lower than a candidate left out.
C22_RerankSelection ==
    (/\ Answered
     /\ Len(query.initial_chunks) > query.rerank_k
     /\ query.rerank_k > 0) =>
        LET n == Len(query.initial_chunks)
            result == query.retrieved_chunks
        IN  /\ query.n_predict = 1
            /\ Len(query.re_rank_scores) = n
            /\ Len(result) = query.rerank_k
            /\ Cardinality(Selected) = query.rerank_k
            /\ \A p \in 1..Len(result) :
                   \E i \in 1..n : result[p] = query.initial_chunks[i]
            /\ \A p, q \in 1..Len(result) :
                   p < q => ScoreOf(result[p]) >= ScoreOf(result[q])
            /\ \A i \in Selected : \A j \in (1..n) \ Selected :
                   query.re_rank_scores[i] >= query.re_rank_scores[j]
            /\ \A i \in 1..n : ScoreOf(result[1]) >= query.re_rank_scores[i]

\* the candidate the index put last is scored highest and comes first
C22_Witness ==
    /\ Answered
    /\ query.rerank_k = 2
    /\ Len(query.initial_chunks) = 4
    /\ query.n_predict = 1
    /\ query.re_rank_scores = <<0, 1, 1, 2>>
    /\ query.retrieved_chunks[1] = query.initial_chunks[4]
    /\ query.retrieved_chunks[2] = query.initial_chunks[2]

\* the first k elements of a sequence: all of it when it has fewer than k,
\* none when k is not positive
FirstK(seq, k) == [i \in 1..Min(k, Len(seq)) |-> seq[i]]

\* the index returned candidates and the rerank condition does not hold
SkipCase ==
    /\ Answered
    /\ Len(query.initial_chunks) > 0
    /\ (Len(query.initial_chunks) <= query.rerank_k \/ query.rerank_k <= 0)

\* C23: when the index returned at most rerank_k candidates, or rerank_k is
\* not positive, the cross-encoder is not called and the result is the first
\* rerank_k candidates in the order of the index.
C23_RerankSkip ==
    SkipCase =>
        /\ query.n_predict = 0
        /\ query.retrieved_chunks = FirstK(query.initial_chunks, query.rerank_k)

\* the same for the requests with rerank_k >= 0
C23_RerankSkipNonNegative ==
    (SkipCase /\ query.rerank_k >= 0) =>
        /\ query.n_predict = 0
        /\ query.retrieved_chunks = FirstK(query.initial_chunks, query.rerank_k)

\* the cross-encoder is not called in the skip case, whatever rerank_k is
C23_NoScoring == SkipCase => query.n_predict = 0 /\ query.re_rank_scores = <<>>

\* a skip with fewer candidates than rerank_k: all of them, in index order
C23_FewCandidates ==
    /\ SkipCase
    /\ query.rerank_k = 3
    /\ Len(query.initial_chunks) = 3
    /\ query.retrieved_chunks = query.initial_chunks

\* C24: when the index returns no candidate the call returns the empty
\* sequence: it does not raise and the cross-encoder is not called.
C24_NoCandidates ==
    (IndexAsked /\ query.pc # "raised" /\ query.initial_chunks = <<>>) =>
        /\ query.pc = "returned"
        /\ query.retrieved_chunks = <<>>
        /\ query.error = None
        /\ query.n_predict = 0

C24_Witness ==
    /\ IndexAsked
    /\ collection = NoMap
    /\ query.top_k = 5
    /\ query.rerank_k = 1
    /\ query.n_results = 5
    /\ query.pc = "returned"
    /\ query.retrieved_chunks = <<>>

\* C25: the character chunker puts a chunk at every multiple of the stride
\* below the length of the text; each chunk is text[start:end] with
\* end = min(start + 2800, len(text)); only the last chunk may be shorter than
\* the window; every character is in some chunk; the empty text has no chunk.
C25_CharacterChunker ==
    (chunker.pc = "done" /\ ~chunker.token_based) =>
        LET text   == chunker.text
            chunks == chunker.chunks
            n      == Len(text)
            stride == CHUNK_SIZE_CHARS - CHUNK_OVERLAP_CHARS
        IN  /\ Len(chunks) = Cardinality({k \in 0..n : k * stride < n})
            /\ n = 0 => chunks = <<>>
            /\ \A k \in 1..Len(chunks) :
                   /\ chunks[k].start = (k - 1) * stride
                   /\ chunks[k].start < n
                   /\ chunks[k].end = IF chunks[k].start + CHUNK_SIZE_CHARS < n
                                      THEN chunks[k].start + CHUNK_SIZE_CHARS ELSE n
                   /\ chunks[k].text = Str(SubSeq(text, chunks[k].start + 1, chunks[k].end))
                   /\ k < Len(chunks) => chunks[k].end - chunks[k].start = CHUNK_SIZE_CHARS
            /\ \A pos \in 0..(n - 1) :
                   \E k \in 1..Len(chunks) :
                       chunks[k].start <= pos /\ pos < chunks[k].end

\* C25, as the chunker behaves: the same, except that the chunk before the
\* last may be shorter than the window too (it is, when fewer characters
\* than the window follow its start); every chunk but the last two is a
\* full window, and no chunk is longer than the window.
C25_AllButLastTwoFull ==
    (chunker.pc = "done" /\ ~chunker.token_based) =>
        LET text   == chunker.text
            chunks == chunker.chunks
            n      == Len(text)
            stride == CHUNK_SIZE_CHARS - CHUNK_OVERLAP_CHARS
        IN  /\ Len(chunks) = Cardinality({k \in 0..n : k * stride < n})
            /\ n = 0 => chunks = <<>>
            /\ \A k \in 1..Len(chunks) :
                   /\ chunks[k].start = (k - 1) * stride
                   /\ chunks[k].start < n
                   /\ chunks[k].end = IF chunks[k].start + CHUNK_SIZE_CHARS < n
                                      THEN chunks[k].start + CHUNK_SIZE_CHARS ELSE n
                   /\ chunks[k].text = Str(SubSeq(text, chunks[k].start + 1, chunks[k].end))
                   /\ chunks[k].end - chunks[k].start <= CHUNK_SIZE_CHARS
                   /\ k + 1 < Len(chunks) => chunks[k].end - chunks[k].start = CHUNK_SIZE_CHARS
                   /\ (k + 1 = Len(chunks) /\ chunks[k].end - chunks[k].start < CHUNK_SIZE_CHARS)
                         => n - chunks[k + 1].start < CHUNK_OVERLAP_CHARS
            /\ \A pos \in 0..(n - 1) :
                   \E k \in 1..Len(chunks) :
                       chunks[k].start <= pos /\ pos < chunks[k].end

\* three chunks, the last two shorter than the window
C25_Witness ==
    /\ chunker.pc = "done"
    /\ Len(chunker.text) = 5104
    /\ Len(chunker.chunks) = 3
    /\ chunker.chunks[1].end = 2800
    /\ chunker.chunks[2].start = 2320
    /\ chunker.chunks[2].end = 5104
    /\ chunker.chunks[3].start = 4640
    /\ chunker.chunks[3].end = 5104

\* the first call has returned: it found manifest, cache and index empty,
\* its document is not blank and no collaborator failed
FirstIngestion ==
    /\ Len(history) = 1
    /\ \A s \in Slots : run[s].pc = "idle"
    /\ history[1].manifest_before = NoMap
    /\ history[1].cache_before = {}
    /\ history[1].index_before = {}
    /\ history[1].faults = 0
    /\ history[1].file_path \in ReadablePaths

\* what the first ingestion leaves behind
FirstIngestionOutcome ==
    LET h == history[1]
    IN  /\ FullReport(h.result)
        /\ h.result.status = "completed"
        /\ h.result.total_chunks > 0
        /\ h.result.new_embeddings = h.result.total_chunks
        /\ h.result.cached_embeddings = 0
        /\ Cardinality(DOMAIN collection) = h.result.total_chunks
        /\ Cardinality(DOMAIN cacheDir) = h.result.total_chunks

\* C26: a non-blank document ingested into empty state with all
\* collaborators succeeding reports completed, total_chunks > 0,
\* new_embeddings = total_chunks, cached_embeddings = 0, and leaves
\* total_chunks records in the index and total_chunks entries in the cache.
C26_FirstIngestion == FirstIngestion => FirstIngestionOutcome

\* the same for the runs whose chunks have distinct keys
C26_FirstIngestionDistinctKeys ==
    (/\ FirstIngestion
     /\ \A i, j \in 1..Len(history[1].hashes) :
           history[1].hashes[i] = history[1].hashes[j] => i = j
     /\ history[1].hashes # <<>>) => FirstIngestionOutcome

\* C27: generate_answer called with no chunk returns the fixed message
\* about finding no relevant information and makes no call of the
\* text-generation API.
C27_NoChunksNoApiCall ==
    /\ generation.pc = "post" => generation.retrieved_chunks # <<>>
    /\ (generation.pc # "idle" /\ generation.retrieved_chunks = <<>>) =>
          /\ generation.pc = "returned"
          /\ generation.answer = NoRelevantInformation
          /\ generation.n_post = 0
          /\ generation.prompt = None

C27_Witness ==
    /\ generation.pc = "returned"
    /\ generation.retrieved_chunks = <<>>
    /\ generation.status = "no_relevant_chunks"
    /\ generation.n_post = 0
    /\ request.pc = "idle"

\* the text generator failed in the request under way: network error or
\* HTTP error status
GenerationFailed ==
    /\ request.pc = "responded"
    /\ request.n_post = 1
    /\ request.generation_status \in {"network_error", "http_error"}

\* C28: when the text generator failed, the /query/ request does not end
\* as a success carrying an answer field.
C28_GenerationFailureSurfaces ==
    GenerationFailed =>
        ~(request.status_code = 200 /\ "answer" \in DOMAIN request.body)

\* failures of retrieval do surface: HTTP 500 with a detail, no answer
C28_RetrievalFailureSurfaces ==
    (request.pc = "responded" /\ request.generation_status = None) =>
        /\ request.status_code \in {404, 500}
        /\ "answer" \notin DOMAIN request.body

\* the texts of the chunks of a call whose key was not in the cache at
\* lookup, in chunk order
MissedTexts(r) ==
    LET pos == Positions(Len(r.all_chunk_hashes),
                         LAMBDA i : r.all_chunk_hashes[i] \notin r.cache_before)
    IN  [j \in 1..Len(pos) |-> r.all_chunk_texts[pos[j]]]

\* C29: the texts to embed are the texts of the cache misses in chunk
\* order; each batch embedded is the next BATCH_SIZE of them, or what is left
\* (at least 1) when fewer are left, so every text is embedded once, in
\* order, and no text of a hit is sent; without misses no embedding call is
\* made.
C29_BatchPartition ==
    [][\A s \in Slots :
          LET r     == run[s]
              after == run[s]'
              texts == r.chunks_to_embed_texts
              sent  == Len(r.generated_embeddings)
              added == Len(after.generated_embeddings) - sent
              left  == Len(texts) - sent
          IN  /\ r.pc \in {"embed", "cache", "upsert", "manifest", "report", "done"} =>
                    /\ r.n_chunker = 1 => texts = MissedTexts(r)
                    /\ texts = <<>> => r.n_embed = 0
                    /\ sent <= Len(texts)
              /\ r.pc = "embed" => r.batch_start = sent /\ left >= 1
              /\ (r.pc = "embed" /\ after.generated_embeddings # r.generated_embeddings) =>
                    /\ sent % BATCH_SIZE = 0
                    /\ added = (IF left > BATCH_SIZE THEN BATCH_SIZE ELSE left)
                    /\ 1 <= added /\ added <= BATCH_SIZE
                    /\ after.n_embed = r.n_embed + 1
                    /\ \A j \in 1..sent :
                          after.generated_embeddings[j] = r.generated_embeddings[j]
                    /\ \A j \in 1..added :
                          after.generated_embeddings[sent + j]
                              = <<"vec", r.embed_model, texts[sent + j]>>
                    /\ after.pc = (IF left > BATCH_SIZE THEN "embed" ELSE "cache")]_vars

\* three misses were embedded in a batch of 2 and a batch of 1
C29_Witness ==
    /\ run[1].pc = "cache"
    /\ Len(run[1].chunks_to_embed_texts) = 3
    /\ Len(run[1].all_chunk_hashes) = 3
    /\ Len(run[1].generated_embeddings) = 3
    /\ run[1].n_embed = 2
    /\ run[1].faults = 0

\* one miss between two hits was embedded in a batch of 1
C29_WitnessOneMiss ==
    /\ run[1].pc = "cache"
    /\ Len(run[1].all_chunk_hashes) = 3
    /\ Len(run[1].chunks_to_embed_texts) = 1
    /\ run[1].n_embed = 1

\* a call made after the others had returned has ended completed
CompletedRun(s) ==
    /\ Done(s)
    /\ FullReport(run[s].result)
    /\ run[s].result.status = "completed"

\* C30: after a run that returns completed, the manifest entry of its
\* doc_id records total_chunks chunks: exactly the chunk keys of that run.
C30_ManifestChunksOfLatestRun ==
    \A s \in Slots :
        CompletedRun(s) =>
            LET entry == manifestFile[run[s].doc_id]
            IN  /\ Cardinality(DOMAIN entry.chunks) = run[s].result.total_chunks
                /\ DOMAIN entry.chunks = Range(run[s].all_chunk_hashes)

\* a completed run whose own keys are all distinct and recorded, after an
\* earlier run of the doc_id: the entry holds keys of the earlier run too
C30_StaleKeys ==
    /\ CompletedRun(1)
    /\ Len(history) = 1
    /\ history[1].doc_id = run[1].doc_id
    /\ Cardinality(Range(run[1].all_chunk_hashes)) = run[1].result.total_chunks
    /\ Range(run[1].all_chunk_hashes) \subseteq DOMAIN manifestFile[run[1].doc_id].chunks
    /\ Range(history[1].hashes) \cap Range(run[1].all_chunk_hashes) = {}
    /\ Cardinality(DOMAIN manifestFile[run[1].doc_id].chunks) > run[1].result.total_chunks

\* the entry always holds the keys of the completed run, with status
\* completed; it holds exactly these when the doc_id had no entry before
C30_FirstRunOfDocument ==
    \A s \in Slots :
        CompletedRun(s) =>
            LET entry == manifestFile[run[s].doc_id]
                keys  == Range(run[s].all_chunk_hashes)
            IN  /\ keys \subseteq DOMAIN entry.chunks
                /\ \A h \in keys : entry.chunks[h].status = "completed"
                /\ run[s].doc_id \notin DOMAIN run[s].manifest_before =>
                       DOMAIN entry.chunks = keys

\* C31: when the calls are made one after another, a step of a call for one
\* doc_id leaves the manifest entry of every other doc_id as it was (status,
\* chunk map and error_message), and no doc_id of the persisted manifest is
\* ever removed.
C31_SequentialFrame ==
    [][\A d \in DOMAIN manifestFile :
          /\ d \in DOMAIN manifestFile'
          /\ (\A s \in Slots : run[s].doc_id # d) => manifestFile'[d] = manifestFile[d]
      ]_vars

\* a call for B has written the manifest that held an entry of A with chunks
C31_Witness ==
    /\ Done(1)
    /\ run[1].doc_id = "B"
    /\ run[1].n_manifest_write = 1
    /\ "A" \in DOMAIN run[1].manifest_before
    /\ run[1].manifest_before["A"].chunks # NoMap
    /\ manifestFile["B"].chunks # NoMap
    /\ manifestFile["A"] = run[1].manifest_before["A"]

\* the call in slot 1 has returned its report and follows directly a call of
\* the same doc_id, file and model that ended completed_with_errors after
\* the upsert gave up; in the later call no collaborator has failed
RecoveryRun ==
    /\ Done(1)
    /\ FullReport(run[1].result)
    /\ run[1].faults = 0
    /\ Len(history) >= 1
    /\ LET a == history[Len(history)]
       IN  /\ a.doc_id = run[1].doc_id
           /\ a.file_path = run[1].file_path
           /\ a.embed_model = run[1].embed_model
           /\ FullReport(a.result)
           /\ a.result.status = "completed_with_errors"

\* the later call found every chunk in the cache, completed, and its keys
\* are all recorded as completed
Recovered ==
    LET r == run[1]
    IN  /\ r.result.new_embeddings = 0
        /\ r.n_embed = 0
        /\ r.result.status = "completed"
        /\ r.result.failed_upserts = 0
        /\ \A h \in Range(r.all_chunk_hashes) :
               /\ h \in DOMAIN manifestFile[r.doc_id].chunks
               /\ manifestFile[r.doc_id].chunks[h].status = "completed"

\* C32: after a run that ended completed_with_errors because the upsert was
\* exhausted, the vectors embedded in that run remain in the cache, so a
\* following run of the same unchanged document with a working index
\* reports new_embeddings = 0, status completed and failed_upserts = 0, and
\* overwrites the status of each of its chunk keys in the manifest from
\* upsert_failed to completed.
C32_RecoveryAfterUpsertFailure ==
    RecoveryRun =>
        /\ Range(history[Len(history)].hashes) \subseteq DOMAIN cacheDir
        /\ Recovered
        /\ \A h \in Range(run[1].all_chunk_hashes) :
               run[1].manifest_before[run[1].doc_id].chunks[h].status = "upsert_failed"

\* C32 for two runs that chunk the same way
C32_RecoverySameStrategy ==
    (RecoveryRun /\ history[Len(history)].token_based = run[1].token_based) =>
        /\ Range(history[Len(history)].hashes) \subseteq DOMAIN cacheDir
        /\ Recovered
        /\ \A h \in Range(run[1].all_chunk_hashes) :
               run[1].manifest_before[run[1].doc_id].chunks[h].status = "upsert_failed"

\* a recovery of a document of several chunks, chunked the same way twice
C32_Recovery ==
    /\ RecoveryRun
    /\ history[Len(history)].token_based = run[1].token_based
    /\ Len(run[1].all_chunk_hashes) = 3
    /\ Recovered

\* the earlier run fell back to character chunks, the later chunks by tokens
C32_StrategyChanged ==
    /\ RecoveryRun
    /\ ~history[Len(history)].token_based
    /\ run[1].token_based
    /\ run[1].result.new_embeddings = 3

\* C33: within one run the text is parsed before it is chunked, chunked
\* before any embedding call, the batches are embedded one at a time in
\* increasing order, the upsert is attempted only after every batch has been
\* embedded, and the manifest is written exactly once, after the upsert
\* attempt or after the failure that ended the run.
C33_StepOrdering ==
    [][\A s \in Slots :
          LET r     == run[s]
              after == run[s]'
              texts == r.chunks_to_embed_texts
          IN  /\ after.n_chunker > r.n_chunker =>
                    /\ ParseTable[r.file_path].ok
                    /\ ~ChunkTable[r.file_path].blank
                    /\ r.n_chunker = 0 /\ r.n_embed = 0 /\ r.n_upsert = 0
                    /\ r.n_manifest_write = 0
              /\ after.n_embed > r.n_embed =>
                    /\ r.n_chunker = 1 /\ r.n_upsert = 0 /\ r.n_manifest_write = 0
                    /\ after.n_embed = r.n_embed + 1
                    /\ r.batch_start = Len(r.generated_embeddings)
                    /\ r.batch_start < Len(texts)
                    /\ after.batch_start \in {r.batch_start, r.batch_start + BATCH_SIZE}
              /\ after.n_upsert > r.n_upsert =>
                    /\ r.n_chunker = 1 /\ r.n_manifest_write = 0
                    /\ Len(r.generated_embeddings) = Len(texts)
                    /\ r.n_cache_put = Len(texts)
                    /\ r.embed_tries = 0
              /\ after.n_manifest_write > r.n_manifest_write =>
                    /\ r.n_manifest_write = 0
                    /\ after.n_manifest_write = 1
                    /\ after.pc \in {"report", "done"}
                    /\ after.pc = "report" => \/ r.all_chunk_hashes = <<>>
                                              \/ r.n_upsert >= 1
              /\ r.pc \in {"report", "done"} =>
                    /\ r.n_manifest_write = 1
                    /\ after.n_embed <= r.n_embed
                    /\ after.n_upsert <= r.n_upsert
                    /\ after.n_chunker <= r.n_chunker]_vars

\* a run of two batches, a failed and a successful upsert attempt, one
\* manifest write
C33_Witness ==
    /\ Done(1)
    /\ run[1].n_chunker = 1
    /\ run[1].n_embed = 2
    /\ run[1].n_upsert = 2
    /\ run[1].n_manifest_write = 1
    /\ run[1].result.status = "completed"

\* the call in slot 1 has completed for a doc_id that an earlier call put
\* into the index from other content or under another embedding model
ReingestedAnew ==
    /\ CompletedRun(1)
    /\ \E i \in 1..Len(history) :
          /\ history[i].doc_id = run[1].doc_id
          /\ FullReport(history[i].result)
          /\ history[i].result.status = "completed"
          /\ history[i].hashes # <<>>
          /\ \/ history[i].embed_model # run[1].embed_model
             \/ history[i].file_path # run[1].file_path

\* the index records whose metadata names the doc_id
RecordsOf(doc_id) == {id \in DOMAIN collection : collection[id].metadata.doc_id = doc_id}

\* C34: after a completed re-ingestion of a doc_id under a new embedding
\* model or with changed content, every index record of that doc_id has a
\* chunk key of the latest run and the latest model as its embed_model.
C34_NoStaleIndexRecords ==
    ReingestedAnew =>
        \A id \in RecordsOf(run[1].doc_id) :
            /\ id \in Range(run[1].all_chunk_hashes)
            /\ collection[id].metadata.embed_model = run[1].embed_model

\* what does hold: every key of the latest run has its record, with the
\* latest model and the vector of that model
C34_LatestRecordsPresent ==
    ReingestedAnew =>
        \A k \in 1..Len(run[1].all_chunk_hashes) :
            LET id == run[1].all_chunk_hashes[k]
            IN  /\ id \in RecordsOf(run[1].doc_id)
                /\ collection[id].metadata.embed_model = run[1].embed_model
                /\ collection[id].embedding[2] = run[1].embed_model

\* the same file under another model: the records of both models are in the
\* index
C34_BothModelsIndexed ==
    /\ ReingestedAnew
    /\ run[1].file_path = "report.txt"
    /\ history[1].file_path = "report.txt"
    /\ Cardinality(RecordsOf("A")) = 6
    /\ Cardinality({collection[id].metadata.embed_model : id \in RecordsOf("A")}) = 2

\* C35: in every persisted manifest, a document whose status is completed
\* has every entry of its chunk map in status completed.
C35_CompletedDocumentHasNoFailedChunk ==
    \A d \in DOMAIN manifestFile :
        manifestFile[d].status = "completed" =>
            \A h \in DOMAIN manifestFile[d].chunks :
                manifestFile[d].chunks[h].status = "completed"

\* what does hold: under a completed document the keys of the run that
\* completed it are completed, and a document completed by its first run
\* has no other entry
C35_KeysOfCompletingRun ==
    \A s \in Slots : CompletedRun(s) =>
        LET entry == manifestFile[run[s].doc_id]
        IN  /\ \A h \in Range(run[s].all_chunk_hashes) :
                   entry.chunks[h].status = "completed"
            /\ run[s].doc_id \notin DOMAIN run[s].manifest_before =>
                   \A h \in DOMAIN entry.chunks : entry.chunks[h].status = "completed"

\* a completed document that keeps upsert_failed entries of an earlier run
C35_FailedChunkUnderCompleted ==
    /\ CompletedRun(1)
    /\ Len(history) = 1
    /\ history[1].doc_id = run[1].doc_id
    /\ history[1].result.status = "completed_with_errors"
    /\ \E h \in DOMAIN manifestFile[run[1].doc_id].chunks :
          /\ h \notin Range(run[1].all_chunk_hashes)
          /\ manifestFile[run[1].doc_id].chunks[h].status = "upsert_failed"

\* the entry has the key error_message
HasErrorMessage(entry) == entry.error_message # {}

\* C36: in every persisted manifest a document entry carries an
\* error_message if and only if its status is failed; a run that ends
\* completed after a failed run of the doc_id leaves no error_message.
C36_ErrorMessageIffFailed ==
    \A d \in DOMAIN manifestFile :
        HasErrorMessage(manifestFile[d]) <=> manifestFile[d].status = "failed"

\* what does hold: a failed document carries the message of its latest
\* failure, and a document that never failed carries none
C36_FailedHasMessage ==
    /\ \A d \in DOMAIN manifestFile :
          manifestFile[d].status = "failed" => HasErrorMessage(manifestFile[d])
    /\ \A s \in Slots :
          (Done(s) /\ run[s].result.status = "failed"
                   /\ run[s].result.reason # "empty document") =>
              manifestFile[run[s].doc_id].error_message = {run[s].result.reason}
    /\ \A d \in DOMAIN manifestFile :
          ((\A i \in 1..Len(history) :
               history[i].doc_id = d => history[i].final_status # "failed")
           /\ (\A s \in Slots : run[s].doc_id = d => run[s].pc # "done"
                                    \/ run[s].manifest[d].status # "failed"))
          => ~HasErrorMessage(manifestFile[d])

\* a completed document that keeps the message of an earlier failed run
C36_MessageUnderCompleted ==
    /\ CompletedRun(1)
    /\ Len(history) = 1
    /\ history[1].doc_id = run[1].doc_id
    /\ history[1].final_status = "failed"
    /\ manifestFile[run[1].doc_id].status = "completed"
    /\ manifestFile[run[1].doc_id].error_message = {history[1].result.reason}

\* the call in slot s has returned the short dictionary of a failure
FailedRun(s) == Done(s) /\ ~FullReport(run[s].result) /\ run[s].result.status = "failed"

\* the chunk map the doc_id had in the manifest when the call was made
ChunksBefore(r) ==
    IF r.doc_id \in DOMAIN r.manifest_before
    THEN r.manifest_before[r.doc_id].chunks ELSE NoMap

\* C37: a run that ends with status failed or failed_empty changes nothing
\* but the status and the error_message of its document: it attempts no
\* upsert, leaves the index records and the cache as they were, and leaves
\* the chunk map of the doc_id as it was before the run (empty for a doc_id
\* seen for the first time).
C37_FailedRunFrame ==
    \A s \in Slots : FailedRun(s) =>
        LET r == run[s]
        IN  /\ manifestFile[r.doc_id].status \in {"failed", "failed_empty"}
            /\ r.n_upsert = 0
            /\ DOMAIN collection = r.index_before
            /\ DOMAIN cacheDir = r.cache_before
            /\ r.n_cache_put = 0
            /\ manifestFile[r.doc_id].chunks = ChunksBefore(r)
            /\ \A d \in DOMAIN r.manifest_before : d # r.doc_id =>
                   manifestFile[d] = r.manifest_before[d]

\* a run failed on its third embedding attempt for a document that already
\* had chunks in the manifest and records in the index
C37_Witness ==
    /\ FailedRun(1)
    /\ run[1].embed_tries = EMBED_MAX_TRIES
    /\ run[1].n_embed >= 1
    /\ ChunksBefore(run[1]) # NoMap
    /\ run[1].index_before # {}
    /\ manifestFile[run[1].doc_id].status = "failed"

\* a blank document seen for the first time
C37_WitnessBlank ==
    /\ FailedRun(1)
    /\ run[1].doc_id \notin DOMAIN run[1].manifest_before
    /\ manifestFile[run[1].doc_id].status = "failed_empty"
    /\ manifestFile[run[1].doc_id].chunks = NoMap

\* the call in slot s has returned a full report
Reported(s) == Done(s) /\ FullReport(run[s].result)

\* C38: in every full report new_embeddings + cached_embeddings =
\* total_chunks with both terms non-negative, failed_upserts is 0 or
\* total_chunks, and the status is completed exactly when failed_upserts = 0
\* and completed_with_errors exactly when failed_upserts > 0.
C38_ReportArithmetic ==
    \A s \in Slots : Reported(s) =>
        LET report == run[s].result
        IN  /\ report.new_embeddings + report.cached_embeddings = report.total_chunks
            /\ report.new_embeddings >= 0
            /\ report.cached_embeddings >= 0
            /\ report.failed_upserts \in {0, report.total_chunks}
            /\ report.status = "completed" <=> report.failed_upserts = 0
            /\ report.status = "completed_with_errors" <=> report.failed_upserts > 0

\* what does hold: failed_upserts is 0 or the number of distinct keys of the
\* run, and the rest of the claim
C38_ReportArithmeticDistinctKeys ==
    \A s \in Slots : Reported(s) =>
        LET report == run[s].result
        IN  /\ report.new_embeddings + report.cached_embeddings = report.total_chunks
            /\ report.new_embeddings >= 0
            /\ report.cached_embeddings >= 0
            /\ report.failed_upserts
                   \in {0, Cardinality(Range(run[s].all_chunk_hashes))}
            /\ report.status = "completed" <=> report.failed_upserts = 0
            /\ report.status = "completed_with_errors" <=> report.failed_upserts > 0

\* a report of 3 chunks with 2 failed upserts
C38_FewerFailedThanChunks ==
    /\ Reported(1)
    /\ run[1].result.total_chunks = 3
    /\ run[1].result.failed_upserts = 2
    /\ run[1].result.status = "completed_with_errors"

\* the singletons are both loaded for the configured model name, with
\* token_based_chunking set
BothLoaded ==
    /\ loader.model = EMBED_MODEL
    /\ loader.tokenizer = EMBED_MODEL
    /\ loader.name = EMBED_MODEL
    /\ loader.token_based

\* the singletons are both absent, with token_based_chunking unset
BothAbsent ==
    /\ loader.model = None
    /\ loader.tokenizer = None
    /\ ~loader.token_based

\* _chunk_text would take the character windows
FallbackInEffect == ~loader.token_based \/ loader.tokenizer = None

\* C39: whenever a call of _get_embedding_model_and_tokenizer returns, the
\* embedding model and the tokenizer are either both loaded for the
\* configured model name (token_based_chunking true) or both absent
\* (token_based_chunking false); hence while the character fallback is in
\* effect no embedding model is held and every _embed_batch attempt raises.
C39_SingletonConsistency ==
    loading.pc = "returned" =>
        /\ loading.model = loader.model
        /\ loading.tokenizer = loader.tokenizer
        /\ BothLoaded \/ BothAbsent
        /\ FallbackInEffect => loader.model = None

\* a call returned a model without a tokenizer: the character fallback is in
\* effect and _embed_batch does not raise
C39_ModelWithoutTokenizer ==
    /\ loading.pc = "returned"
    /\ loading.model = EMBED_MODEL
    /\ loading.tokenizer = None
    /\ FallbackInEffect

\* a call returned the model of the configured name with the tokenizer of
\* the model configured before
C39_TokenizerOfOtherModel ==
    /\ loading.pc = "returned"
    /\ loading.model = EMBED_MODEL
    /\ loading.tokenizer \notin {None, EMBED_MODEL}
    /\ loader.token_based

\* the consequence drawn for a document: a run chunked by the character
\* fallback with at least one cache miss ends failed
C39_FallbackRunFails ==
    (Done(1) /\ run[1].n_chunker = 1 /\ ~run[1].token_based
             /\ run[1].newly_embedded_count > 0) =>
        (~FullReport(run[1].result) /\ run[1].result.status = "failed")

\* the /ingest/ request of an upload without a file name has been answered
NamelessUploadAnswered == upload.pc = "responded" /\ upload.filename = ""

\* C40: a POST to /ingest/ whose upload has no filename is answered with the
\* HTTP 400 error "No file name provided", triggers no ingestion run, records
\* status code 400 in the request counter, decrements the in-progress gauge
\* it incremented, and closes the upload.
C40_NamelessUpload ==
    NamelessUploadAnswered =>
        /\ upload.response = HTTPException(400, "No file name provided.")
        /\ started = upload.started_before
        /\ upload.doc_id = "unknown"
        /\ metrics.request_count[400] = upload.n_empty
        /\ metrics.in_progress = 0
        /\ upload.closed

\* what does hold: no ingestion run, the counter and the gauge
C40_NamelessUploadCounted ==
    NamelessUploadAnswered =>
        /\ started = upload.started_before
        /\ upload.doc_id = "unknown"
        /\ upload.status_code = 400
        /\ metrics.request_count[400] = upload.n_empty
        /\ metrics.in_progress = 0

\* the nameless upload is answered 500 and left open
C40_AnsweredInternalServerError ==
    /\ NamelessUploadAnswered
    /\ upload.response.status_code = 500
    /\ ~upload.closed
    /\ metrics.request_count[400] = 1

\* a named upload is ingested, answered 200 and closed
C40_NamedUploadAnswered ==
    /\ upload.pc = "responded"
    /\ upload.filename = "report.txt"
    /\ upload.response.status_code = 200
    /\ upload.closed
    /\ metrics.request_count[200] = 1
====
